---- MODULE Spec2Model ----
(***************************************************************************)
(* Model of the AMDEC spreadsheet import/export layer:                     *)
(*   amdec/utils/excel_handler.py  (ExcelImporter, ExcelExporter)          *)
(*   amdec/utils/validators.py     (get_criticality_level)                 *)
(*   amdec/models.py               (AMDECProject, FailureMode)             *)
(*   amdec/management/commands/import_amdec.py (Command)                   *)
(*                                                                         *)
(* Text is modelled as a sequence of tokens (words, blanks, line breaks);  *)
(* a cell is None, an int, a float (in tenths) or a string.                *)
(***************************************************************************)
EXTENDS Integers, Sequences, FiniteSets, TLC

VARIABLES
    pc,        \* position of the running call
    args,      \* arguments of the pure function under call
    ret,       \* value returned by the last call
    exc,       \* exception escaping the last call, "none" when it returned
    warnings,  \* ExcelImporter.warnings
    errors,    \* ExcelImporter.errors
    imported_count, \* ExcelImporter.imported_count
    file,      \* the file handed to parse_excel
    clock,     \* the current minute (datetime.now())
    parse,     \* locals of parse_excel / _extract_failures while it runs
    data,      \* the dictionary parse_excel returned
    store,     \* the database as the connection sees it
    savepoints, \* the open transaction.atomic blocks: the state each would restore
    cursor,    \* create_project: index of the next entry of data['failures']
    cli,       \* the import_amdec command: options, files, loop index, stats
    wb,        \* ExcelExporter.wb: the sheets of the exporter's workbook
    before,    \* history: the store when create_project was entered
    fault      \* history: whether the database raised an error of its own

vars == <<pc, args, ret, exc, warnings, errors, imported_count, file, clock,
          parse, data, store, savepoints, cursor, cli, wb, before, fault>>

pureVars == <<args, ret>>
exportVars == <<wb>>
importVars == <<imported_count, file, clock, parse, data, store, savepoints,
                cursor, cli, before, fault>>

----------------------------------------------------------------------------
(* Bounds of the model *)

MaxCellInt == 13
MaxNegInt == 3
MaxClock == 2
MaxDataRows == 3
MaxMetaRows == 3
MaxFailures == 3

(* Program constants *)

ScoreMin == 1
ScoreMax == 10
DefaultScore == 5
LowMax == 60
MediumMax == 120

----------------------------------------------------------------------------
(* Cells *)

NoneCell == [k |-> "none", n |-> 0, s |-> <<>>]
IntCell(i) == [k |-> "int", n |-> i, s |-> <<>>]
FloatCell(t) == [k |-> "float", n |-> t, s |-> <<>>]
StrCell(s) == [k |-> "str", n |-> 0, s |-> s]
\* A cell formatted as a date: openpyxl gives a datetime.datetime (at
\* midnight), or a datetime.date; s is what str(value) gives
DateTimeCell(d) == [k |-> "datetime", n |-> 1, s |-> <<d, " ", "00:00:00">>]
DateCell(d) == [k |-> "date", n |-> 1, s |-> <<d>>]

Blank == {" ", "\n", "\r", "\t"}

\* Tokens Python's float() reads as a finite number, with their value in tenths.
NumeralTenths ==
    [tok \in {"0", "1", "5", "7", "10", "15", "9.9", "10.5", "0.4", "-2"} |->
        CASE tok = "0" -> 0
          [] tok = "1" -> 10
          [] tok = "5" -> 50
          [] tok = "7" -> 70
          [] tok = "10" -> 100
          [] tok = "15" -> 150
          [] tok = "9.9" -> 99
          [] tok = "10.5" -> 105
          [] tok = "0.4" -> 4
          [] tok = "-2" -> -20]

\* Tokens float() reads as an infinity ("1e999" overflows to inf) or as NaN.
InfTokens == {"inf", "Infinity", "1e999"}
NanTokens == {"nan"}

RECURSIVE LStrip(_)
LStrip(s) == IF s # <<>> /\ Head(s) \in Blank THEN LStrip(Tail(s)) ELSE s

RECURSIVE RStrip(_)
RStrip(s) ==
    IF s # <<>> /\ s[Len(s)] \in Blank THEN RStrip(SubSeq(s, 1, Len(s) - 1)) ELSE s

\* str.strip()
Strip(s) == RStrip(LStrip(s))

\* float(str(value)): [kind |-> "fin", t |-> tenths], "inf", "nan", or
\* "ValueError" when the text is no number.
FloatOfStr(s) ==
    LET t == Strip(s) IN
    IF Len(t) # 1 THEN [kind |-> "ValueError", t |-> 0]
    ELSE IF t[1] \in DOMAIN NumeralTenths THEN [kind |-> "fin", t |-> NumeralTenths[t[1]]]
    ELSE IF t[1] \in InfTokens THEN [kind |-> "inf", t |-> 0]
    ELSE IF t[1] \in NanTokens THEN [kind |-> "nan", t |-> 0]
    ELSE [kind |-> "ValueError", t |-> 0]

FloatOfCell(value) ==
    CASE value.k = "int" -> [kind |-> "fin", t |-> 10 * value.n]
      [] value.k = "float" -> [kind |-> "fin", t |-> value.n]
      [] value.k = "str" -> FloatOfStr(value.s)
      [] OTHER -> [kind |-> "ValueError", t |-> 0]   \* str(None) = 'None'

\* Mutant of TruncTenths: rounds to the nearest integer instead of truncating.
TruncTenths_Round(t) == IF t >= 0 THEN (t + 5) \div 10 ELSE -((5 - t) \div 10)

\* int(x) of a finite float: truncation toward zero.
TruncTenths(t) == IF t >= 0 THEN t \div 10 ELSE -((-t) \div 10)

Min2(a, b) == IF a <= b THEN a ELSE b
Max2(a, b) == IF a >= b THEN a ELSE b

----------------------------------------------------------------------------
(* ExcelImporter._parse_score *)

ClampWarning(row_num, field_name, score) ==
    [kind |-> "clamped", row |-> row_num, field |-> field_name, val |-> score]
ScoreError(row_num, field_name) ==
    [kind |-> "invalid_score", row |-> row_num, field |-> field_name, val |-> 0]

\* Mutant of Clamp: the score is returned as it was read.
Clamp_Identity(score) == score

\* min(10, max(1, score))
Clamp(score) == Min2(ScoreMax, Max2(ScoreMin, score))

\* imp is the importer's state [warnings, errors]; the result carries the
\* returned score, the importer's state after the call and the exception that
\* escaped ("none" when the call returned).
ParseScore(value, field_name, row_num, imp) ==
    LET f == FloatOfCell(value) IN
    CASE f.kind = "fin" ->
            LET score == TruncTenths(f.t) IN
            IF ScoreMin <= score /\ score <= ScoreMax
            THEN [ret |-> score, warnings |-> imp.warnings,
                  errors |-> imp.errors, exc |-> "none"]
            ELSE [ret |-> Clamp(score),
                  warnings |-> Append(imp.warnings,
                                      ClampWarning(row_num, field_name, score)),
                  errors |-> imp.errors, exc |-> "none"]
      [] f.kind = "inf" ->
            \* int(float('inf')) raises OverflowError, which the except
            \* clause (ValueError, TypeError) does not catch.
            [ret |-> 0, warnings |-> imp.warnings, errors |-> imp.errors,
             exc |-> "OverflowError"]
      [] OTHER ->
            \* ValueError from float() or from int(nan)
            [ret |-> DefaultScore, warnings |-> imp.warnings,
             errors |-> Append(imp.errors, ScoreError(row_num, field_name)),
             exc |-> "none"]

----------------------------------------------------------------------------
(* Criticality bands *)

Criticality(g, o, d) == g * o * d

\* Mutant of CriticalityLevel: the first band excludes its upper bound.
CriticalityLevel_Strict(crit) ==
    IF crit < LowMax THEN "FAIBLE"
    ELSE IF crit <= MediumMax THEN "MODEREE"
    ELSE "ELEVEE"

\* FailureMode.criticality_level
CriticalityLevel(crit) ==
    IF crit <= LowMax THEN "FAIBLE"
    ELSE IF crit <= MediumMax THEN "MODEREE"
    ELSE "ELEVEE"

\* validators.get_criticality_level
GetCriticalityLevel(criticality) ==
    IF criticality <= LowMax THEN "FAIBLE"
    ELSE IF criticality <= MediumMax THEN "MODEREE"
    ELSE "ELEVEE"

\* Mutant of SummaryBand: no medium band.
SummaryBand_NoMedium(criticality) ==
    IF criticality > LowMax THEN "high" ELSE "low"

\* The band tests of ExcelImporter._calculate_summary
SummaryBand(criticality) ==
    IF criticality > MediumMax THEN "high"
    ELSE IF criticality > LowMax THEN "medium"
    ELSE "low"

----------------------------------------------------------------------------
(* Text: a string is a sequence of tokens.  Accented letters are written   *)
(* without their accent ("Defaillance" stands for 'Défaillance').          *)

\* str.lower(), token by token
LowerTok(tok) ==
    CASE tok = "Composant" -> "composant"
      [] tok = "Mode" -> "mode"
      [] tok = "Defaillance" -> "defaillance"
      [] tok = "Cause" -> "cause"
      [] tok = "Potentielle" -> "potentielle"
      [] tok = "Effet" -> "effet"
      [] tok = "Gravite" -> "gravite"
      [] tok = "(G)" -> "(g)"
      [] tok = "Occurrence" -> "occurrence"
      [] tok = "(O)" -> "(o)"
      [] tok = "Detection" -> "detection"
      [] tok = "(D)" -> "(d)"
      [] tok = "Actions" -> "actions"
      [] tok = "Preventives" -> "preventives"
      [] tok = "Criticite" -> "criticite"
      [] tok = "(C)" -> "(c)"
      [] tok = "Niveau" -> "niveau"
      [] tok = "Total" -> "total"
      [] tok = "TOTAL" -> "total"
      [] tok = "Resume" -> "resume"
      [] tok = "Elevee" -> "elevee"
      [] tok = "Moderee" -> "moderee"
      [] tok = "Systeme" -> "systeme"
      [] tok = "Date" -> "date"
      [] tok = "Equipe" -> "equipe"
      [] tok = "Objectif" -> "objectif"
      [] tok = "Client" -> "client"
      [] tok = "Reference" -> "reference"
      [] tok = "MODE" -> "mode"
      [] tok = "DEFAILLANCE" -> "defaillance"
      [] tok = "ANALYSE" -> "analyse"
      [] tok = "DES" -> "des"
      [] tok = "S" -> "s"
      [] tok = "Pump" -> "pump"
      [] tok = "Valve" -> "valve"
      [] tok = "Seal" -> "seal"
      [] tok = "Leak" -> "leak"
      [] tok = "A" -> "a"
      [] tok = "STEP" -> "step"
      [] tok = "AMDEC" -> "amdec"
      [] tok = "REF-1" -> "ref-1"
      [] tok = "REF-2" -> "ref-2"
      [] tok = "None" -> "none"
      [] OTHER -> tok

Lower(s) == [i \in 1..Len(s) |-> LowerTok(s[i])]

\* needle in hay (a contiguous run of tokens)
Contains(hay, needle) ==
    \E i \in 0..(Len(hay) - Len(needle)) :
        \A j \in 1..Len(needle) : hay[i + j] = needle[j]

\* str(value)
Str(value) ==
    CASE value.k = "none" -> <<"None">>
      [] value.k = "int" -> <<ToString(value.n)>>
      [] value.k = "float" ->
            IF value.n >= 0
            THEN <<ToString(value.n \div 10), ".", ToString(value.n % 10)>>
            ELSE <<"-", ToString((-value.n) \div 10), ".", ToString((-value.n) % 10)>>
      [] OTHER -> value.s

\* bool(value)
Truthy(value) ==
    CASE value.k = "none" -> FALSE
      [] value.k = "str" -> value.s # <<>>
      [] OTHER -> value.n # 0

\* any(row)
AnyTruthy(row) == \E i \in 1..Len(row) : Truthy(row[i])

RECURSIVE SplitBlank(_)
\* str.split(): the words of s, the runs of blanks between them dropped;
\* the result is the sequence of words, each a sequence of tokens.
SplitBlank(s) ==
    LET t == LStrip(s) IN
    IF t = <<>> THEN <<>>
    ELSE LET n == CHOOSE k \in 1..Len(t) :
                    /\ \A j \in 1..k : t[j] \notin Blank
                    /\ (k = Len(t) \/ t[k + 1] \in Blank)
         IN <<SubSeq(t, 1, n)>> \o SplitBlank(SubSeq(t, n + 1, Len(t)))

RECURSIVE JoinWords(_)
\* ' '.join(words)
JoinWords(words) ==
    IF words = <<>> THEN <<>>
    ELSE IF Len(words) = 1 THEN words[1]
    ELSE words[1] \o <<" ">> \o JoinWords(Tail(words))

\* ' '.join(str(cell) for cell in row if cell)
JoinCells(row) ==
    LET kept == SelectSeq(row, Truthy)
    IN JoinWords([i \in 1..Len(kept) |-> Str(kept[i])])

\* ExcelImporter._clean_text
CleanText(value) ==
    IF value.k = "none" THEN <<>>
    ELSE JoinWords(SplitBlank(Strip(Str(value))))

----------------------------------------------------------------------------
(* ExcelImporter._parse_date *)

Today == "TODAY"

\* Mutant of DateFormats: the ISO format only.
DateFormats_IsoOnly == <<"%Y-%m-%d">>

\* The formats tried, in order
DateFormats == <<"%Y-%m-%d", "%d/%m/%Y", "%d-%m-%Y", "%Y/%m/%d", "%d.%m.%Y">>

\* datetime.strptime(text, fmt).date(): the date as an ISO string, or
\* "ValueError".  text is one token after strip().
Strptime(tok, fmt) ==
    CASE fmt = "%Y-%m-%d" /\ tok = "2025-12-31" -> "2025-12-31"
      [] fmt = "%d/%m/%Y" /\ tok = "31/12/2025" -> "2025-12-31"
      [] fmt = "%d-%m-%Y" /\ tok = "31-12-2025" -> "2025-12-31"
      [] fmt = "%Y/%m/%d" /\ tok = "2025/12/31" -> "2025-12-31"
      [] fmt = "%d.%m.%Y" /\ tok = "31.12.2025" -> "2025-12-31"
      [] fmt = "%d/%m/%Y" /\ tok = "01/02/2025" -> "2025-02-01"
      [] OTHER -> "ValueError"

DateWarning == [kind |-> "invalid_date", row |-> 0, field |-> "", val |-> 0]

\* value is a string here: _extract_metadata hands over str(row[1]).strip()
ParseDate(value, imp) ==
    LET t == Strip(value)
        hits == {i \in 1..Len(DateFormats) :
                    Len(t) = 1 /\ Strptime(t[1], DateFormats[i]) # "ValueError"}
    IN IF hits # {}
       THEN LET first == CHOOSE i \in hits : \A j \in hits : i <= j
            IN [ret |-> Strptime(t[1], DateFormats[first]), warnings |-> imp.warnings]
       ELSE [ret |-> Today, warnings |-> Append(imp.warnings, DateWarning)]

\* _parse_date on a cell value: a date or a datetime gives its day; a value
\* that is no string (None, a number) skips the formats and gets today's
\* date with the warning.
ParseDateValue(value, imp) ==
    IF value.k \in {"date", "datetime"}
    THEN [ret |-> value.s[1], warnings |-> imp.warnings]
    ELSE IF value.k = "str" THEN ParseDate(value.s, imp)
    ELSE [ret |-> Today, warnings |-> Append(imp.warnings, DateWarning)]

----------------------------------------------------------------------------
(* ExcelImporter._extract_metadata *)

\* METADATA_KEYWORDS, in the dictionary's order
MetadataKeywords ==
    << [keyword |-> "systeme", field |-> "system_name"],
       [keyword |-> "date", field |-> "analysis_date"],
       [keyword |-> "equipe", field |-> "team_members"],
       [keyword |-> "objectif", field |-> "objective"],
       [keyword |-> "client", field |-> "client"],
       [keyword |-> "reference", field |-> "reference"] >>

MetaScanRows == 15
NameScanRows == 5

\* datetime.now().strftime('%Y%m%d-%H%M'), now being the minute of the call
StrftimeMinute(now) == <<"20251105", "-", "012", ToString(now)>>

\* The metadata dictionary before the scan; now is the minute of the call.
DefaultMetadata(now) ==
    [system_name |-> <<>>, analysis_date |-> Today, team_members |-> <<>>,
     objective |-> <<>>, client |-> <<>>,
     reference |-> <<"AMDEC-">> \o StrftimeMinute(now)]

\* One iteration of the loop over rows 1..15: st = [metadata, warnings, set],
\* set being the fields some row has assigned so far.
MetadataRow(st, row) ==
    IF row = <<>> \/ ~Truthy(row[1]) THEN st
    ELSE LET first_cell == Strip(Lower(Str(row[1])))
             hits == {k \in 1..Len(MetadataKeywords) :
                         Contains(first_cell, <<MetadataKeywords[k].keyword>>)}
         IN IF hits = {} THEN st
            ELSE \* the first keyword of the dictionary found in the cell; break
                 LET k == CHOOSE i \in hits : \A j \in hits : i <= j
                     field == MetadataKeywords[k].field
                 IN IF Len(row) > 1 /\ Truthy(row[2])
                    THEN LET value == Strip(Str(row[2])) IN
                         IF field = "analysis_date"
                         THEN LET r == ParseDate(value, [warnings |-> st.warnings])
                              IN [metadata |-> [st.metadata EXCEPT ![field] = r.ret],
                                  warnings |-> r.warnings,
                                  set |-> st.set \cup {field}]
                         ELSE [metadata |-> [st.metadata EXCEPT ![field] = value],
                               warnings |-> st.warnings,
                               set |-> st.set \cup {field}]
                    ELSE st

RECURSIVE MetadataScan(_, _, _)
MetadataScan(st, rows, i) ==
    IF i > Len(rows) \/ i > MetaScanRows THEN st
    ELSE MetadataScan(MetadataRow(st, rows[i]), rows, i + 1)

\* lines[0] of cell_value.split('\n'), with '\r' removed and stripped
FirstLine(s) ==
    LET brk == {i \in 1..Len(s) : s[i] = "\n"}
        line == IF brk = {} THEN s
                ELSE SubSeq(s, 1, (CHOOSE i \in brk : \A j \in brk : i <= j) - 1)
    IN Strip(SelectSeq(line, LAMBDA tok : tok # "\r"))

\* The second loop (rows 1..5): the system name from a title cell that
\* contains 'STEP' or 'AMDEC'; the loop ends at the first such cell.
HeaderName(metadata, rows) ==
    LET hits == {i \in 1..Min2(Len(rows), NameScanRows) :
                    /\ rows[i] # <<>>
                    /\ Truthy(rows[i][1])
                    /\ \/ Contains(Str(rows[i][1]), <<"STEP">>)
                       \/ Contains(Str(rows[i][1]), <<"AMDEC">>)}
    IN IF hits = {} THEN metadata
       ELSE LET i == CHOOSE x \in hits : \A y \in hits : x <= y
                name == FirstLine(Str(rows[i][1]))
            IN IF metadata.system_name = <<>> /\ name # <<>>
               THEN [metadata EXCEPT !.system_name = name]
               ELSE metadata

\* _extract_metadata(worksheet): [metadata, warnings, set]
ExtractMetadata(rows, now, imp) ==
    LET st == MetadataScan([metadata |-> DefaultMetadata(now),
                            warnings |-> imp.warnings, set |-> {}], rows, 1)
    IN [st EXCEPT !.metadata = HeaderName(st.metadata, rows)]

----------------------------------------------------------------------------
(* ExcelImporter._extract_failures *)

\* COLUMN_MAPPING, in the dictionary's order
ColumnMapping ==
    << [excel_name |-> <<"Composant">>, field_name |-> "component"],
       [excel_name |-> <<"Mode", " ", "de", " ", "Defaillance">>,
        field_name |-> "failure_mode"],
       [excel_name |-> <<"Cause", " ", "Potentielle">>, field_name |-> "potential_cause"],
       [excel_name |-> <<"Effet">>, field_name |-> "effect"],
       [excel_name |-> <<"Gravite", " ", "(G)">>, field_name |-> "gravity"],
       [excel_name |-> <<"Occurrence", " ", "(O)">>, field_name |-> "occurrence"],
       [excel_name |-> <<"Detection", " ", "(D)">>, field_name |-> "detection"],
       [excel_name |-> <<"Actions", " ", "Preventives">>,
        field_name |-> "preventive_actions"] >>

\* The keywords of a trailing summary block
StopKeywords ==
    { <<"resume">>, <<"total">>, <<"criticite", " ", "elevee">>,
      <<"criticite", " ", "moderee">> }

\* Whether the row is the header row (line 215-216)
IsHeaderRow(row) ==
    LET row_str == JoinCells(row) IN
    /\ Contains(row_str, <<"Composant">>)
    /\ (Contains(row_str, <<"Mode">>) \/ Contains(row_str, <<"Defaillance">>))

\* The field a header cell maps to, "" when no label matches (lines 222-226)
HeaderField(cell) ==
    LET cell_str == Strip(Str(cell))
        cell_low == Lower(cell_str)
        hits == {k \in 1..Len(ColumnMapping) :
                    \/ Contains(cell_str, ColumnMapping[k].excel_name)
                    \/ Contains(cell_low, Lower(ColumnMapping[k].excel_name))}
    IN IF hits = {} THEN ""
       ELSE ColumnMapping[CHOOSE i \in hits : \A j \in hits : i <= j].field_name

\* column_indices[field_name] = col_idx on a dict kept in insertion order:
\* an entry already there is overwritten in place.
SetColumn(indices, field_name, col_idx) ==
    IF \E k \in 1..Len(indices) : indices[k].field_name = field_name
    THEN [k \in 1..Len(indices) |->
            IF indices[k].field_name = field_name
            THEN [field_name |-> field_name, col_idx |-> col_idx]
            ELSE indices[k]]
    ELSE Append(indices, [field_name |-> field_name, col_idx |-> col_idx])

RECURSIVE MapColumns(_, _, _)
\* column_indices of the header row; col is the 1-based position of the cell,
\* col_idx = col - 1 the index the code stores.
MapColumns(row, col, indices) ==
    IF col > Len(row) THEN indices
    ELSE LET field_name == IF Truthy(row[col]) THEN HeaderField(row[col]) ELSE ""
         IN IF field_name # ""
            THEN MapColumns(row, col + 1, SetColumn(indices, field_name, col - 1))
            ELSE MapColumns(row, col + 1, indices)

IncompleteWarning(row_idx) ==
    [kind |-> "incomplete", row |-> row_idx, field |-> "", val |-> 0]
NoHeaderWarning == [kind |-> "no_header", row |-> 0, field |-> "", val |-> 0]

\* failure_data = {'order': len(failures)}; keys are the keys of the dict
NewFailureData(order) ==
    [order |-> order, keys |-> {"order"},
     component |-> <<>>, failure_mode |-> <<>>, potential_cause |-> <<>>,
     effect |-> <<>>, preventive_actions |-> <<>>,
     gravity |-> 0, occurrence |-> 0, detection |-> 0]

RECURSIVE FillRow(_, _, _, _, _)
\* The loop over column_indices.items() for one data row (lines 251-259):
\* st = [fd, warnings, errors, exc]
FillRow(st, row, row_idx, indices, k) ==
    IF k > Len(indices) \/ st.exc # "none" THEN st
    ELSE LET field_name == indices[k].field_name
             col_idx == indices[k].col_idx
         IN IF ~(col_idx < Len(row)) THEN FillRow(st, row, row_idx, indices, k + 1)
            ELSE LET value == row[col_idx + 1] IN
                 IF field_name \in {"gravity", "occurrence", "detection"}
                 THEN LET r == ParseScore(value, field_name, row_idx,
                                          [warnings |-> st.warnings, errors |-> st.errors])
                      IN FillRow([fd |-> [st.fd EXCEPT ![field_name] = r.ret,
                                                        !.keys = @ \cup {field_name}],
                                  warnings |-> r.warnings, errors |-> r.errors,
                                  exc |-> r.exc],
                                 row, row_idx, indices, k + 1)
                 ELSE FillRow([st EXCEPT !.fd =
                                  [st.fd EXCEPT ![field_name] =
                                        IF Truthy(value) THEN CleanText(value) ELSE <<>>,
                                                !.keys = @ \cup {field_name}]],
                              row, row_idx, indices, k + 1)

\* Mutant of IsSummaryRow: no row ends the scan.
IsSummaryRow_Never(row) == FALSE

\* Whether the scan stops at this row (lines 241-244)
IsSummaryRow(row) ==
    LET first_cell == IF Truthy(row[1]) THEN Str(row[1]) ELSE <<>>
    IN \E keyword \in StopKeywords : Contains(Lower(first_cell), keyword)

\* One iteration of the loop over the rows below the header (lines 234-265):
\* st = [failures, warnings, errors, exc, stopped]
DataRow(st, row, row_idx, indices) ==
    IF ~AnyTruthy(row) THEN st
    ELSE IF IsSummaryRow(row) THEN [st EXCEPT !.stopped = TRUE]
    ELSE LET f == FillRow([fd |-> NewFailureData(Len(st.failures)),
                           warnings |-> st.warnings, errors |-> st.errors,
                           exc |-> "none"], row, row_idx, indices, 1)
         IN IF f.exc # "none"
            THEN [st EXCEPT !.warnings = f.warnings, !.errors = f.errors, !.exc = f.exc]
            ELSE IF f.fd.component # <<>> /\ f.fd.failure_mode # <<>>
            THEN [st EXCEPT !.failures = Append(@, f.fd),
                            !.warnings = f.warnings, !.errors = f.errors]
            ELSE [st EXCEPT !.warnings = Append(f.warnings, IncompleteWarning(row_idx)),
                            !.errors = f.errors]

RECURSIVE DataScan(_, _, _, _)
DataScan(st, rows, row_idx, indices) ==
    IF row_idx > Len(rows) \/ st.stopped \/ st.exc # "none" THEN st
    ELSE DataScan(DataRow(st, rows[row_idx], row_idx, indices), rows, row_idx + 1, indices)

RECURSIVE HeaderSearch(_, _)
HeaderSearch(rows, i) ==
    IF i > Len(rows) THEN 0
    ELSE IF rows[i] # <<>> /\ IsHeaderRow(rows[i]) THEN i
    ELSE HeaderSearch(rows, i + 1)

\* The number of the header row, 0 when no row qualifies (lines 210-227)
HeaderRowOf(rows) == HeaderSearch(rows, 1)

\* _extract_failures(worksheet): [failures, warnings, errors, exc, stopped]
ExtractFailures(rows, imp) ==
    LET header_row == HeaderRowOf(rows)
        column_indices == IF header_row = 0 THEN <<>>
                          ELSE MapColumns(rows[header_row], 1, <<>>)
        st0 == [failures |-> <<>>, warnings |-> imp.warnings, errors |-> imp.errors,
                exc |-> "none", stopped |-> FALSE]
    IN IF header_row = 0 \/ column_indices = <<>>
       THEN [st0 EXCEPT !.warnings = Append(@, NoHeaderWarning)]
       ELSE DataScan(st0, rows, header_row + 1, column_indices)

----------------------------------------------------------------------------
(* ExcelImporter._calculate_summary *)

HasScores(failure) == {"gravity", "occurrence", "detection"} \subseteq failure.keys

CountBand(failures, band) ==
    Cardinality({i \in 1..Len(failures) :
        /\ HasScores(failures[i])
        /\ SummaryBand(Criticality(failures[i].gravity, failures[i].occurrence,
                                   failures[i].detection)) = band})

CalculateSummary(failures) ==
    [total |-> Len(failures),
     high |-> CountBand(failures, "high"),
     medium |-> CountBand(failures, "medium"),
     low |-> CountBand(failures, "low")]

----------------------------------------------------------------------------
(* ExcelImporter.validate_data *)

ValidationMsg(kind, idx, field) == [kind |-> kind, row |-> idx, field |-> field, val |-> 0]

\* The errors one failure adds (lines 414-426), in order
FailureErrors(failure, idx) ==
    LET scoreErr(field) ==
            IF field \notin failure.keys
            THEN <<ValidationMsg("score_missing", idx, field)>>
            ELSE IF ~(1 <= failure[field] /\ failure[field] <= 10)
            THEN <<ValidationMsg("score_invalid", idx, field)>>
            ELSE <<>>
    IN (IF failure.component = <<>>
        THEN <<ValidationMsg("component_missing", idx, "")>> ELSE <<>>)
       \o (IF failure.failure_mode = <<>>
           THEN <<ValidationMsg("failure_mode_missing", idx, "")>> ELSE <<>>)
       \o scoreErr("gravity") \o scoreErr("occurrence") \o scoreErr("detection")

RECURSIVE AllFailureErrors(_, _)
AllFailureErrors(failures, idx) ==
    IF idx > Len(failures) THEN <<>>
    ELSE FailureErrors(failures[idx], idx) \o AllFailureErrors(failures, idx + 1)

\* Mutant of ValidateData: an empty failure list is accepted.
ValidateData_AllowEmpty(d) ==
    LET e1 == IF d.metadata.system_name = <<>>
              THEN <<ValidationMsg("system_name_missing", 0, "")>> ELSE <<>>
        es == e1 \o AllFailureErrors(d.failures, 1)
    IN [ok |-> es = <<>>, errors |-> es]

\* validate_data(d): the list self.errors is cleared first, so the result
\* carries the whole list: [ok, errors]
ValidateData(d) ==
    LET e1 == IF d.metadata.system_name = <<>>
              THEN <<ValidationMsg("system_name_missing", 0, "")>> ELSE <<>>
    IN IF d.failures = <<>>
       THEN [ok |-> FALSE,
             errors |-> Append(e1, ValidationMsg("no_failures", 0, ""))]
       ELSE LET es == e1 \o AllFailureErrors(d.failures, 1)
            IN [ok |-> es = <<>>, errors |-> es]

----------------------------------------------------------------------------
(* The database: AMDECProject and FailureMode rows, in insertion order *)

EmptyStore == [projects |-> <<>>, failures |-> <<>>, next_id |-> 1]

NoFile == [loadable |-> FALSE, sheets |-> <<>>]
NoParse == [ws |-> <<>>, metadata |-> DefaultMetadata(0), header_row |-> 0,
            column_indices |-> <<>>, row_idx |-> 0, failures |-> <<>>,
            wb_open |-> FALSE]
NoData == [metadata |-> DefaultMetadata(0), failures |-> <<>>,
           summary |-> [total |-> 0, high |-> 0, medium |-> 0, low |-> 0]]

\* Command.__init__: the statistics of a run (lines 88-97)
NewStats ==
    [files_processed |-> 0, files_success |-> 0, files_failed |-> 0,
     projects_created |-> 0, failures_imported |-> 0,
     warnings |-> <<>>, errors |-> <<>>]

\* The command when no run is under way
NoCli ==
    [options |-> [batch |-> FALSE, dry_run |-> FALSE, skip_validation |-> FALSE,
                  max_errors |-> 0, user_ok |-> FALSE],
     files |-> <<>>, idx |-> 0, stats |-> NewStats, results |-> <<>>,
     exit |-> -1, cancelled |-> FALSE, start |-> EmptyStore]

\* The import machinery at rest (the scenarios that only call pure functions)
ImportIdle ==
    /\ imported_count = 0
    /\ file = NoFile
    /\ clock = 0
    /\ parse = NoParse
    /\ data = NoData
    /\ store = EmptyStore
    /\ savepoints = <<>>
    /\ cursor = 0
    /\ cli = NoCli
    /\ wb = <<>>
    /\ before = EmptyStore
    /\ fault = FALSE

\* The user the projects are created for (the user argument of create_project)
ImportUser == <<"admin">>

\* AMDECProject.objects.create(...) of create_project (lines 457-468)
ProjectRow(id, metadata, user, now) ==
    [id |-> id, name |-> metadata.system_name, reference |-> metadata.reference,
     client |-> metadata.client, analysis_date |-> metadata.analysis_date,
     team_members |-> metadata.team_members, objective |-> metadata.objective,
     created_by |-> user, created_at |-> now]

\* FailureMode.objects.create(...) of create_project (lines 472-484)
FailureRow(project_id, fd) ==
    [project |-> project_id,
     component |-> fd.component, failure_mode |-> fd.failure_mode,
     potential_cause |-> fd.potential_cause, effect |-> fd.effect,
     gravity |-> IF "gravity" \in fd.keys THEN fd.gravity ELSE DefaultScore,
     occurrence |-> IF "occurrence" \in fd.keys THEN fd.occurrence ELSE DefaultScore,
     detection |-> IF "detection" \in fd.keys THEN fd.detection ELSE DefaultScore,
     preventive_actions |-> fd.preventive_actions,
     responsible |-> <<>>, deadline |-> "",
     order |-> fd.order, status |-> "PENDING"]

\* Mutant of ReferenceTaken: the column has no unique constraint.
ReferenceTaken_Never(st, reference) == FALSE

\* unique=True on AMDECProject.reference
ReferenceTaken(st, reference) ==
    \E i \in 1..Len(st.projects) : st.projects[i].reference = reference

\* Mutant of PairTaken: the table has no unique_together constraint.
PairTaken_Never(st, row) == FALSE

\* unique_together (project, component, failure_mode) on FailureMode
PairTaken(st, row) ==
    \E i \in 1..Len(st.failures) :
        /\ st.failures[i].project = row.project
        /\ st.failures[i].component = row.component
        /\ st.failures[i].failure_mode = row.failure_mode

\* Mutant of AtomicRollback: leaving the block on an exception keeps the writes.
AtomicRollback_Keep(st, saved) == st

\* transaction.atomic left on an exception: the state saved on entry is restored
AtomicRollback(st, saved) == saved[Len(saved)]

----------------------------------------------------------------------------
(* ExcelImporter.parse_excel *)

PreferredSheets == << <<"Analyse AMDEC">>, <<"AMDEC">>, <<"Analysis">> >>

\* The worksheet parse_excel works on (lines 115-122)
SelectSheet(sheets) ==
    LET hits == {k \in 1..Len(PreferredSheets) :
                    \E i \in 1..Len(sheets) : sheets[i].name = PreferredSheets[k]}
    IN IF hits = {} THEN sheets[1]
       ELSE LET k == CHOOSE x \in hits : \A y \in hits : x <= y
            IN sheets[CHOOSE i \in 1..Len(sheets) : sheets[i].name = PreferredSheets[k]]

\* The locals of parse_excel when the loop over the data rows is reached:
\* the sheet chosen, _extract_metadata and the header search of
\* _extract_failures.  [parse, warnings, found]
\* Mutant of HeaderWarnings: a sheet without header row is not reported.
HeaderWarnings_Silent(found, recorded) == recorded

\* if not header_row or not column_indices: self.warnings.append(...) (lines 229-231)
HeaderWarnings(found, recorded) ==
    IF found THEN recorded ELSE Append(recorded, NoHeaderWarning)

ParseStart(sheets, now, imp) ==
    LET ws == SelectSheet(sheets).rows
        m == ExtractMetadata(ws, now, imp)
        header_row == HeaderRowOf(ws)
        column_indices == IF header_row = 0 THEN <<>>
                          ELSE MapColumns(ws[header_row], 1, <<>>)
        found == header_row # 0 /\ column_indices # <<>>
    IN [parse |-> [ws |-> ws, metadata |-> m.metadata, header_row |-> header_row,
                   column_indices |-> column_indices, row_idx |-> header_row + 1,
                   failures |-> <<>>, wb_open |-> TRUE],
        warnings |-> HeaderWarnings(found, m.warnings),
        found |-> found]

\* parse_excel up to the loop over the data rows: load_workbook, the choice
\* of the sheet, _extract_metadata and the header search of _extract_failures.
ParseExcelBegin ==
    /\ pc = "parse"
    /\ \E now \in clock..Min2(clock + 1, MaxClock) :
        /\ clock' = now
        /\ IF ~file.loadable \/ file.sheets = <<>>
           THEN /\ exc' = "ValidationError"
                /\ pc' = "parse_raised"
                /\ UNCHANGED <<parse, warnings>>
           ELSE \E r \in {ParseStart(file.sheets, now, [warnings |-> warnings])} :
                   /\ parse' = r.parse
                   /\ warnings' = r.warnings
                   /\ pc' = IF r.found /\ r.parse.header_row < Len(r.parse.ws)
                            THEN "scan" ELSE "summary"
                   /\ exc' = "none"
    /\ UNCHANGED <<pureVars, exportVars, cli, errors, imported_count, file, data, store, savepoints,
                   cursor, before, fault>>

\* One iteration of the loop over the rows below the header
ScanRow ==
    /\ pc = "scan"
    /\ \E st \in {DataRow([failures |-> parse.failures, warnings |-> warnings,
                            errors |-> errors, exc |-> "none", stopped |-> FALSE],
                           parse.ws[parse.row_idx], parse.row_idx,
                           parse.column_indices)} :
          /\ warnings' = st.warnings
          /\ errors' = st.errors
          /\ exc' = st.exc
          /\ parse' = [parse EXCEPT !.failures = st.failures,
                                    !.row_idx = IF st.exc # "none" \/ st.stopped
                                                THEN @ ELSE @ + 1]
          /\ pc' = IF st.exc # "none" THEN "parse_raised"
                   ELSE IF st.stopped \/ parse.row_idx = Len(parse.ws) THEN "summary"
                   ELSE "scan"
    /\ UNCHANGED <<pureVars, exportVars, cli, imported_count, file, clock, data, store, savepoints,
                   cursor, before, fault>>

\* _calculate_summary, wb.close() and the return of parse_excel
ParseExcelReturn ==
    /\ pc = "summary"
    /\ data' = [metadata |-> parse.metadata, failures |-> parse.failures,
                summary |-> CalculateSummary(parse.failures)]
    /\ parse' = [parse EXCEPT !.wb_open = FALSE]
    /\ pc' = "parsed"
    /\ UNCHANGED <<pureVars, exportVars, cli, exc, warnings, errors, imported_count, file, clock,
                   store, savepoints, cursor, before, fault>>

----------------------------------------------------------------------------
(* ExcelImporter.create_project, under @transaction.atomic *)

\* Entry of the atomic block, then validate_data; a refusal raises
\* ValidationError, which leaves the block.
CreateProjectBegin ==
    /\ pc = "parsed"
    /\ before' = store
    /\ \E v \in {ValidateData(data)}, saved \in {Append(savepoints, store)} :
          /\ errors' = v.errors
          /\ IF v.ok
             THEN /\ pc' = "insert_project"
                  /\ savepoints' = saved
                  /\ exc' = "none"
                  /\ store' = store
             ELSE /\ pc' = "create_raised"
                  /\ savepoints' = savepoints
                  /\ exc' = "ValidationError"
                  /\ store' = AtomicRollback(store, saved)
    /\ cursor' = 0
    /\ fault' = FALSE
    /\ UNCHANGED <<pureVars, exportVars, cli, warnings, imported_count, file, clock, parse, data>>

\* AMDECProject.objects.create: the row is written, or the database raises
\* (the reference is taken, or an error of its own); the except clause turns
\* the error into ValidationError, which leaves the atomic block.
InsertProject ==
    /\ pc = "insert_project"
    /\ \E db_error \in BOOLEAN :
        IF db_error \/ ReferenceTaken(store, data.metadata.reference)
        THEN /\ store' = AtomicRollback(store, savepoints)
             /\ savepoints' = SubSeq(savepoints, 1, Len(savepoints) - 1)
             /\ exc' = "ValidationError"
             /\ pc' = "create_raised"
             /\ fault' = db_error
             /\ cursor' = cursor
        ELSE /\ store' = [store EXCEPT
                            !.projects = Append(@, ProjectRow(store.next_id, data.metadata, ImportUser, clock)),
                            !.next_id = @ + 1]
             /\ cursor' = 1
             /\ pc' = "insert_failure"
             /\ UNCHANGED <<savepoints, exc, fault>>
    /\ UNCHANGED <<pureVars, exportVars, cli, warnings, errors, imported_count, file, clock, parse,
                   data, before>>

\* The project create_project is filling
CurrentProject == store.projects[Len(store.projects)].id

\* One iteration of the loop over data['failures']
InsertFailure ==
    /\ pc = "insert_failure"
    /\ cursor <= Len(data.failures)
    /\ LET row == FailureRow(CurrentProject, data.failures[cursor]) IN
       \E db_error \in BOOLEAN :
        IF db_error \/ PairTaken(store, row)
        THEN /\ store' = AtomicRollback(store, savepoints)
             /\ savepoints' = SubSeq(savepoints, 1, Len(savepoints) - 1)
             /\ exc' = "ValidationError"
             /\ pc' = "create_raised"
             /\ fault' = db_error
             /\ UNCHANGED <<cursor, imported_count>>
        ELSE /\ store' = [store EXCEPT !.failures = Append(@, row)]
             /\ imported_count' = imported_count + 1
             /\ cursor' = cursor + 1
             /\ UNCHANGED <<savepoints, exc, fault, pc>>
    /\ UNCHANGED <<pureVars, exportVars, cli, warnings, errors, file, clock, parse, data, before>>

\* return project: the atomic block is left normally
CreateProjectReturn ==
    /\ pc = "insert_failure"
    /\ cursor > Len(data.failures)
    /\ savepoints' = SubSeq(savepoints, 1, Len(savepoints) - 1)
    /\ pc' = "created"
    /\ UNCHANGED <<pureVars, exportVars, cli, exc, warnings, errors, imported_count, file, clock,
                   parse, data, store, cursor, before, fault>>

----------------------------------------------------------------------------
(* Calls of the pure functions on inputs drawn from bounded sets *)

ScoreFields == {"gravity", "occurrence", "detection"}

ScoreStrings ==
    {<<tok>> : tok \in DOMAIN NumeralTenths \cup InfTokens \cup NanTokens
                        \cup {"abc", "9,5", "None"}}
    \cup {<<>>, <<" ", "7", " ">>, <<"7", " ", "5">>, <<" ">>, <<"\n", "inf">>}

ScoreCells ==
    {NoneCell}
    \cup {IntCell(i) : i \in (0 - MaxNegInt)..MaxCellInt}
    \cup {FloatCell(t) : t \in (0 - 10 * MaxNegInt)..(10 * MaxCellInt)}
    \cup {StrCell(s) : s \in ScoreStrings}

OldWarning == [kind |-> "incomplete", row |-> 2, field |-> "", val |-> 0]
OldError == [kind |-> "invalid_score", row |-> 2, field |-> "gravity", val |-> 0]

NoArgs == [value |-> NoneCell, field_name |-> "", row_num |-> 0,
           g |-> 0, o |-> 0, d |-> 0]

InitScore ==
    /\ pc = "parse_score"
    /\ \E v \in ScoreCells, f \in ScoreFields, r \in {3, 4} :
          args = [NoArgs EXCEPT !.value = v, !.field_name = f, !.row_num = r]
    /\ ret = 0
    /\ exc = "none"
    /\ warnings \in {<<>>, <<OldWarning>>}
    /\ errors \in {<<>>, <<OldError>>}
    /\ ImportIdle

\* One call of importer._parse_score(value, field_name, row_num)
CallParseScore ==
    /\ pc = "parse_score"
    /\ \E r \in {ParseScore(args.value, args.field_name, args.row_num,
                              [warnings |-> warnings, errors |-> errors])} :
          /\ ret' = r.ret
          /\ exc' = r.exc
          /\ warnings' = r.warnings
          /\ errors' = r.errors
    /\ pc' = "parse_score_done"
    /\ UNCHANGED <<args, importVars, exportVars>>

NextScore == CallParseScore

SpecScore == InitScore /\ [][NextScore]_vars

InitLevel ==
    /\ pc = "level"
    /\ \E g \in ScoreMin..ScoreMax, o \in ScoreMin..ScoreMax, d \in ScoreMin..ScoreMax :
          args = [NoArgs EXCEPT !.g = g, !.o = o, !.d = d]
    /\ ret = 0
    /\ exc = "none"
    /\ warnings = <<>>
    /\ errors = <<>>
    /\ ImportIdle

\* The three classifications of the criticality g*o*d
CallLevels ==
    /\ pc = "level"
    /\ LET c == Criticality(args.g, args.o, args.d)
       IN ret' = [criticality |-> c,
                  model |-> CriticalityLevel(c),
                  validators |-> GetCriticalityLevel(c),
                  summary |-> SummaryBand(c)]
    /\ pc' = "level_done"
    /\ UNCHANGED <<args, exc, warnings, errors, importVars, exportVars>>

NextLevel == CallLevels

SpecLevel == InitLevel /\ [][NextLevel]_vars

\* The texts handed to _parse_date, with blanks around them or not
DateTokens ==
    {"2025-12-31", "31/12/2025", "31-12-2025", "2025/12/31", "31.12.2025",
     "01/02/2025", "12/31/2025", "2025-31-12", "not-a-date"}

DateStrings ==
    {pre \o <<tok>> \o post :
        tok \in DateTokens, pre \in {<<>>, <<" ">>, <<"\n">>}, post \in {<<>>, <<" ">>}}
    \cup {<<>>, <<" ">>, <<"31/12/2025", " ", "10:00">>}

DateValues ==
    {StrCell(s) : s \in DateStrings}
    \cup {NoneCell, IntCell(0), IntCell(1), DateCell("2025-12-31"), DateTimeCell("2025-02-01")}

InitDate ==
    /\ pc = "parse_date"
    /\ \E v \in DateValues : args = [NoArgs EXCEPT !.value = v]
    /\ ret = 0
    /\ exc = "none"
    /\ warnings \in {<<>>, <<OldWarning>>}
    /\ errors \in {<<>>, <<OldError>>}
    /\ ImportIdle

\* One call of importer._parse_date(value)
CallParseDate ==
    /\ pc = "parse_date"
    /\ \E r \in {ParseDateValue(args.value, [warnings |-> warnings])} :
          /\ ret' = r.ret
          /\ warnings' = r.warnings
    /\ pc' = "parse_date_done"
    /\ UNCHANGED <<args, exc, errors, importVars, exportVars>>

NextDate == CallParseDate

SpecDate == InitDate /\ [][NextDate]_vars

----------------------------------------------------------------------------
(* validators.validate_reference *)

RefMinLen == 3
RefMaxLen == 50

\* The characters of a token of more than one character
Chars(tok) ==
    CASE tok = "REF-1" -> <<"R", "E", "F", "-", "1">>
      [] tok = "REF-2" -> <<"R", "E", "F", "-", "2">>
      [] tok = "AMDEC-" -> <<"A", "M", "D", "E", "C", "-">>
      [] tok = "20251105" -> <<"2", "0", "2", "5", "1", "1", "0", "5">>
      [] tok = "012" -> <<"0", "1", "2">>
      [] tok = "00" -> <<"0", "0">>
      [] tok = "59" -> <<"5", "9">>
      [] tok = "ab" -> <<"a", "b">>
      [] OTHER -> <<tok>>

RECURSIVE Expand(_)
\* A text as the sequence of its characters
Expand(text) == IF text = <<>> THEN <<>> ELSE Chars(Head(text)) \o Expand(Tail(text))

\* Mutant of UpperChar: the letters keep their case.
UpperChar_Identity(c) == c

\* str.upper() on one character ("e/acute" stands for the accented e)
UpperChar(c) ==
    CASE c = "a" -> "A"
      [] c = "b" -> "B"
      [] c = "e" -> "E"
      [] c = "f" -> "F"
      [] c = "r" -> "R"
      [] c = "e/acute" -> "E/acute"
      [] OTHER -> c

Upper(s) == [i \in 1..Len(s) |-> UpperChar(s[i])]

\* The characters the pattern ^[A-Z0-9\-_]+$ accepts
RefChars ==
    {"A", "B", "C", "D", "E", "F", "G", "H", "I", "J", "K", "L", "M", "N", "O", "P",
     "Q", "R", "S", "T", "U", "V", "W", "X", "Y", "Z",
     "0", "1", "2", "3", "4", "5", "6", "7", "8", "9", "-", "_"}

\* datetime.now().strftime('%Y%m%d-%H%M%S')
StrftimeSecond(now, sec) == StrftimeMinute(now) \o <<sec>>

\* validate_reference(reference) called at minute now, second sec;
\* reference is a sequence of characters: [ret, exc]
ValidateReference(reference, now, sec) ==
    IF reference = <<>>
    THEN [ret |-> Expand(<<"AMDEC-">> \o StrftimeSecond(now, sec)), exc |-> "none"]
    ELSE LET r == Upper(Strip(reference)) IN
         IF r = <<>> \/ \E i \in 1..Len(r) : r[i] \notin RefChars
         THEN [ret |-> <<>>, exc |-> "ValidationError"]
         ELSE IF Len(r) > RefMaxLen THEN [ret |-> <<>>, exc |-> "ValidationError"]
         ELSE IF Len(r) < RefMinLen THEN [ret |-> <<>>, exc |-> "ValidationError"]
         ELSE [ret |-> r, exc |-> "none"]

\* The sequences of at most n elements of S
SeqUpTo(S, n) == UNION {[1..k -> S] : k \in 0..n}

\* The references handed to validate_reference
RefAlphabet == {"a", "R", "1", "-", "_", " ", "e/acute", "!"}

RefInputs ==
    SeqUpTo(RefAlphabet, 3)
    \cup {<<"R", "E", "F", "-", "0", "0", "1">>, <<" ", "r", "e", "f", "_", "1", "\n">>,
          [i \in 1..RefMaxLen |-> "A"], [i \in 1..(RefMaxLen + 1) |-> "A"],
          <<" ">> \o [i \in 1..RefMaxLen |-> "b"]}

InitReference ==
    /\ pc = "validate_reference"
    /\ \E v \in {StrCell(s) : s \in RefInputs} \cup {NoneCell} :
          args = [NoArgs EXCEPT !.value = v]
    /\ ret = 0
    /\ exc = "none"
    /\ warnings = <<>>
    /\ errors = <<>>
    /\ ImportIdle

\* One call of validate_reference(reference); None and '' are both falsy
CallValidateReference ==
    /\ pc = "validate_reference"
    /\ \E now \in clock..Min2(clock + 1, MaxClock), sec \in {"00", "59"} :
        /\ clock' = now
        /\ \E r \in {ValidateReference(args.value.s, now, sec)} :
              /\ ret' = r.ret
              /\ exc' = r.exc
    /\ pc' = "validate_reference_done"
    /\ UNCHANGED <<args, warnings, errors, imported_count, file, parse, data, store,
                   savepoints, cursor, cli, wb, before, fault>>

NextReference == CallValidateReference

SpecReference == InitReference /\ [][NextReference]_vars

----------------------------------------------------------------------------
(* Import of one spreadsheet: parse_excel, then create_project *)

T(tokens) == StrCell(tokens)
N(i) == IntCell(i)

\* The rows of the sheets are five cells wide.
Pad5(cells) == cells \o [i \in 1..(5 - Len(cells)) |-> NoneCell]

HeaderFull ==
    << T(<<"Composant">>), T(<<"Mode", " ", "de", " ", "Defaillance">>),
       T(<<"Gravite", " ", "(G)">>), T(<<"Occurrence", " ", "(O)">>),
       T(<<"Detection", " ", "(D)">>) >>

\* A header row without the detection column
HeaderNoDetection ==
    << T(<<"Composant">>), T(<<"Mode", " ", "de", " ", "Defaillance">>),
       T(<<"Gravite", " ", "(G)">>), T(<<"Occurrence", " ", "(O)">>),
       T(<<"Notes">>) >>

RowSystem == Pad5(<<T(<<"Systeme", " ", "analyse:">>), T(<<"Pump", " ", "Station">>)>>)
RowReference == Pad5(<<T(<<"Reference">>), T(<<"REF-1">>)>>)
RowReference2 == Pad5(<<T(<<"Reference", ":">>), T(<<"REF-2">>)>>)
RowClient == Pad5(<<T(<<"Client", ":">>), T(<<"ACME">>)>>)
RowClient2 == Pad5(<<T(<<"Client">>), T(<<" ", "Bob">>)>>)
RowClientEmpty == Pad5(<<T(<<"Client">>)>>)
RowDate == Pad5(<<T(<<"Date">>), T(<<"31/12/2025">>)>>)
RowDate2 == Pad5(<<T(<<"Date", " ", "d'analyse">>), T(<<"01/02/2025">>)>>)
RowDateNative == Pad5(<<T(<<"Date">>), DateTimeCell("2025-12-31")>>)
RowDateBad == Pad5(<<T(<<"Date">>), T(<<"not-a-date">>)>>)
RowTitle == Pad5(<<T(<<"AMDEC", " ", "Pompe", "\n", "STEP">>)>>)

RowGood1 == <<T(<<"Pump">>), T(<<"Seal">>), N(9), N(8), N(7)>>
RowGood2 == <<T(<<"Valve">>), T(<<"Leak">>), N(15), N(0), FloatCell(99)>>
RowDuplicate == <<T(<<"Pump">>), T(<<" ", "Seal">>), N(1), N(1), N(1)>>
RowNoComponent == <<NoneCell, T(<<"Seal">>), N(3), N(3), N(3)>>
RowNoComponentBadScores == <<NoneCell, T(<<"Leak">>), N(15), NoneCell, T(<<"abc">>)>>
RowBlankMode == <<T(<<"Valve">>), T(<<" ", " ">>), N(5), N(5), N(5)>>
RowEmpty == Pad5(<<>>)
RowTotal == <<T(<<"Total">>), NoneCell, N(3), NoneCell, NoneCell>>
RowInfScore == <<T(<<"Valve">>), T(<<"Seal">>), T(<<"inf">>), N(5), N(5)>>

DataRowKinds ==
    {RowGood1, RowGood2, RowDuplicate, RowNoComponent, RowNoComponentBadScores,
     RowBlankMode, RowEmpty, RowTotal, RowInfScore}

Workbook1(rows) == [loadable |-> TRUE, sheets |-> <<[name |-> <<"Feuil1">>, rows |-> rows]>>]
Unreadable == [loadable |-> FALSE, sheets |-> <<>>]

ImportFiles ==
    {Workbook1(meta \o <<header>> \o rows) :
        meta \in {<<>>, <<RowSystem, RowReference>>},
        header \in {HeaderFull, HeaderNoDetection},
        rows \in SeqUpTo(DataRowKinds, MaxDataRows)}
    \cup {Unreadable, Workbook1(<<RowSystem, RowGood1>>),
          Workbook1(<<RowSystem, RowDateBad, RowGood1>>)}

\* A database that already holds a project with reference REF-1
StoreWithProject ==
    [projects |-> << [id |-> 1, name |-> <<"Old">>, reference |-> <<"REF-1">>,
                      client |-> <<>>, analysis_date |-> "2025-02-01",
                      team_members |-> <<>>, objective |-> <<>>,
                      created_by |-> ImportUser, created_at |-> 0] >>,
     failures |-> << [project |-> 1, component |-> <<"Pump">>,
                      failure_mode |-> <<"Seal">>, potential_cause |-> <<>>,
                      effect |-> <<>>, gravity |-> 4, occurrence |-> 4,
                      detection |-> 4, preventive_actions |-> <<>>,
                      responsible |-> <<>>, deadline |-> "",
                      order |-> 0, status |-> "PENDING"] >>,
     next_id |-> 2]

\* A new ExcelImporter (__init__), about to parse the file
ImporterStart(files, stores) ==
    /\ pc = "parse"
    /\ args = NoArgs
    /\ ret = 0
    /\ exc = "none"
    /\ warnings = <<>>
    /\ errors = <<>>
    /\ imported_count = 0
    /\ file \in files
    /\ clock = 1
    /\ parse = NoParse
    /\ data = NoData
    /\ store \in stores
    /\ savepoints = <<>>
    /\ cursor = 0
    /\ cli = NoCli
    /\ wb = <<>>
    /\ before = store
    /\ fault = FALSE

InitImport == ImporterStart(ImportFiles, {EmptyStore, StoreWithProject})

NextImport ==
    \/ ParseExcelBegin
    \/ ScanRow
    \/ ParseExcelReturn
    \/ CreateProjectBegin
    \/ InsertProject
    \/ InsertFailure
    \/ CreateProjectReturn

SpecImport == InitImport /\ [][NextImport]_vars

\* Sheets that vary the metadata rows above a fixed table
MetaRowKinds ==
    {RowSystem, RowReference, RowReference2, RowClient, RowClient2, RowClientEmpty,
     RowDate, RowDate2, RowDateBad, RowDateNative, RowTitle, RowEmpty}

MetaFiles ==
    {Workbook1(meta \o <<HeaderFull>> \o rows) :
        meta \in SeqUpTo(MetaRowKinds, MaxMetaRows),
        rows \in {<<>>, <<RowGood1>>}}

InitMeta == ImporterStart(MetaFiles, {EmptyStore})

NextMeta ==
    \/ ParseExcelBegin
    \/ ScanRow
    \/ ParseExcelReturn

SpecMeta == InitMeta /\ [][NextMeta]_vars

----------------------------------------------------------------------------
(* The import_amdec command: Command.handle and Command._process_file *)

MaxFiles == 3
ConfirmThreshold == 5

\* What validate_excel_file reads of the object it is given
UploadedFile(size_mb) ==
    [has_name |-> TRUE, name_ok |-> TRUE, has_size |-> TRUE, size_mb |-> size_mb,
     sniff |-> "application/vnd.ms-excel"]

\* open(filepath, 'rb'): a buffered reader has a name and no size attribute
OpenedFile ==
    [has_name |-> TRUE, name_ok |-> TRUE, has_size |-> FALSE, size_mb |-> 0,
     sniff |-> "application/vnd.openxmlformats-officedocument.spreadsheetml.sheet"]

\* valid_types of validate_excel_file (lines 232-236)
ValidTypes ==
    {"application/vnd.ms-excel",
     "application/vnd.openxmlformats-officedocument.spreadsheetml.sheet",
     "application/octet-stream"}

\* The body of the try block (lines 229-243): the exception it raises.
\* sniff is the type magic.from_buffer returns, "unavailable" when the call
\* itself fails.
MimeTest(f) ==
    IF f.sniff = "unavailable" THEN "Exception"
    ELSE IF f.sniff \notin ValidTypes THEN "ValidationError"
    ELSE "none"

\* except Exception as e: logger.debug(...) (lines 244-246): every exception
\* of the try block ends here, the ValidationError of the test included
ExceptException(raised) == "none"

\* validate_excel_file(file): the exception raised, "none" when it returns
ValidateExcelFile(f) ==
    IF ~f.has_name THEN "ValidationError"
    ELSE IF ~f.name_ok THEN "ValidationError"
    ELSE IF ~f.has_size THEN "AttributeError"
    ELSE IF f.size_mb > 10 THEN "ValidationError"
    ELSE ExceptException(MimeTest(f))

\* Mutant of LimitReached: the limit is never looked at.
LimitReached_Never(c) == FALSE

\* The test of the error limit after a file (handle, line 218)
LimitReached(c) == Len(c.stats.errors) >= c.options.max_errors

\* Mutant of ExitStatus: the failures are not looked at.
ExitStatus_Zero(stats) == 0

\* The exit status after the final report (handle, lines 240-242)
ExitStatus(stats) == IF stats.files_failed > 0 THEN 1 ELSE 0

\* After _process_file has returned: the limit test, then the next file, or
\* the final report and sys.exit.
LoopStep(c) ==
    IF LimitReached(c) \/ c.idx = Len(c.files)
    THEN [c EXCEPT !.exit = ExitStatus(c.stats)]
    ELSE [c EXCEPT !.idx = @ + 1]

\* Mutant of Reraises: a failed file never ends the run.
Reraises_Never(options) == FALSE

\* Whether the except clause of _process_file raises CommandError (line 482)
Reraises(options) == ~options.batch

\* Mutant of FileFailed: the failed file is not counted in files_failed.
FileFailed_Uncounted(c, e) ==
    LET f == [c EXCEPT !.stats.errors = Append(@, [file |-> c.idx, exc |-> e]),
                       !.results = Append(@, "failed")]
    IN IF Reraises(c.options) THEN [f EXCEPT !.exit = 1] ELSE LoopStep(f)

\* The except clause of _process_file for the exception e; the CommandError
\* it raises leaves handle (which re-raises it without --batch) and the
\* command ends with status 1.
FileFailed(c, e) ==
    LET f == [c EXCEPT !.stats.files_failed = @ + 1,
                       !.stats.errors = Append(@, [file |-> c.idx, exc |-> e]),
                       !.results = Append(@, "failed")]
    IN IF Reraises(c.options) THEN [f EXCEPT !.exit = 1] ELSE LoopStep(f)

PcAfter(c) == IF c.exit # -1 THEN "exited" ELSE "process_file"

\* handle up to the loop over the files: the user, the collected files, the
\* confirmation asked for more than five files outside dry-run.
CliBegin ==
    /\ pc = "handle"
    /\ \E answer \in BOOLEAN :
        cli' = IF ~cli.options.user_ok \/ cli.files = <<>>
               THEN [cli EXCEPT !.exit = 1]
               ELSE IF ~cli.options.dry_run /\ Len(cli.files) > ConfirmThreshold
                       /\ ~answer
               THEN [cli EXCEPT !.exit = 0, !.cancelled = TRUE]
               ELSE [cli EXCEPT !.idx = 1]
    /\ pc' = PcAfter(cli')
    /\ UNCHANGED <<pureVars, exportVars, exc, warnings, errors, imported_count, file, clock,
                   parse, data, store, savepoints, cursor, before, fault>>

\* _process_file up to parse_excel: the file is counted, validated unless
\* --skip-validation, and handed to a new ExcelImporter.
CliProcessFile ==
    /\ pc = "process_file"
    /\ \E c \in {[cli EXCEPT !.stats.files_processed = @ + 1, !.start = store]},
          v \in {IF cli.options.skip_validation THEN "none"
                 ELSE ValidateExcelFile(OpenedFile)} :
          IF v # "none"
          THEN /\ cli' = FileFailed(c, "CommandError")
               /\ pc' = PcAfter(cli')
               /\ UNCHANGED <<exc, warnings, errors, imported_count, file, parse,
                              data, cursor>>
          ELSE /\ cli' = c
               /\ pc' = "parse"
               /\ exc' = "none"
               /\ warnings' = <<>>
               /\ errors' = <<>>
               /\ imported_count' = 0
               /\ file' = cli.files[cli.idx]
               /\ parse' = NoParse
               /\ data' = NoData
               /\ cursor' = 0
    /\ UNCHANGED <<pureVars, exportVars, clock, store, savepoints, before, fault>>

\* --dry-run: the parsed data are shown, the file counts as a success
CliDryRun ==
    /\ pc = "parsed"
    /\ cli.options.dry_run
    /\ cli' = LoopStep([cli EXCEPT !.stats.files_success = @ + 1,
                                   !.results = Append(@, "ok")])
    /\ pc' = PcAfter(cli')
    /\ UNCHANGED <<pureVars, exportVars, exc, warnings, errors, imported_count, file, clock,
                   parse, data, store, savepoints, cursor, before, fault>>

\* with transaction.atomic(): importer.create_project(data, user).  The
\* block of _process_file opens on the state create_project starts from and
\* is left the way create_project is left.
CliCreateProject ==
    /\ ~cli.options.dry_run
    /\ CreateProjectBegin

\* create_project returned: the statistics of the success (lines 446-471)
CliFileCreated ==
    /\ pc = "created"
    /\ cli' = LoopStep([cli EXCEPT !.stats.files_success = @ + 1,
                                   !.stats.projects_created = @ + 1,
                                   !.stats.failures_imported = @ + imported_count,
                                   !.stats.warnings = @ \o warnings,
                                   !.results = Append(@, "ok")])
    /\ pc' = PcAfter(cli')
    /\ UNCHANGED <<pureVars, exportVars, exc, warnings, errors, imported_count, file, clock,
                   parse, data, store, savepoints, cursor, before, fault>>

\* parse_excel or create_project raised: the except clause of _process_file
CliFileFailed ==
    /\ pc \in {"parse_raised", "create_raised"}
    /\ cli' = FileFailed(cli, exc)
    /\ pc' = PcAfter(cli')
    /\ UNCHANGED <<pureVars, exportVars, exc, warnings, errors, imported_count, file, clock,
                   parse, data, store, savepoints, cursor, before, fault>>

\* The files of a run
FileGood1 == Workbook1(<<RowSystem, RowReference, HeaderFull, RowGood1>>)
FileGood2 == Workbook1(<<RowSystem, RowReference2, HeaderFull, RowGood2, RowBlankMode>>)
FileDuplicate == Workbook1(<<RowSystem, RowReference2, HeaderFull, RowGood1, RowDuplicate>>)

CliFileKinds == {FileGood1, FileGood2, FileDuplicate, Unreadable}

\* More files than the confirmation threshold
ManyFiles == [i \in 1..(ConfirmThreshold + 1) |-> Unreadable]

CliOptions ==
    [batch : BOOLEAN, dry_run : BOOLEAN, skip_validation : BOOLEAN,
     max_errors : {0, 1, 2, 10}, user_ok : {TRUE}]
    \cup {[batch |-> FALSE, dry_run |-> FALSE, skip_validation |-> TRUE,
           max_errors |-> 10, user_ok |-> FALSE]}

\* python manage.py import_amdec <paths> --user <name> [options]; files is
\* the sorted list _collect_files returns.
InitCli ==
    /\ pc = "handle"
    /\ args = NoArgs
    /\ ret = 0
    /\ exc = "none"
    /\ warnings = <<>>
    /\ errors = <<>>
    /\ imported_count = 0
    /\ file = NoFile
    /\ clock = 1
    /\ parse = NoParse
    /\ data = NoData
    /\ store = EmptyStore
    /\ savepoints = <<>>
    /\ cursor = 0
    /\ \E options \in CliOptions,
          files \in SeqUpTo(CliFileKinds, MaxFiles) \cup {ManyFiles} :
          cli = [NoCli EXCEPT !.options = options, !.files = files]
    /\ wb = <<>>
    /\ before = EmptyStore
    /\ fault = FALSE

NextCli ==
    \/ CliBegin
    \/ CliProcessFile
    \/ ParseExcelBegin
    \/ ScanRow
    \/ ParseExcelReturn
    \/ CliDryRun
    \/ CliCreateProject
    \/ InsertProject
    \/ InsertFailure
    \/ CreateProjectReturn
    \/ CliFileCreated
    \/ CliFileFailed

SpecCli == InitCli /\ [][NextCli]_vars

----------------------------------------------------------------------------
(* Calls of validate_excel_file on uploaded files *)

SniffedTypes == ValidTypes \cup {"text/plain", "application/pdf", "application/zip", "unavailable"}

UploadedFiles ==
    [has_name : BOOLEAN, name_ok : BOOLEAN, has_size : BOOLEAN, size_mb : {0, 10, 11},
     sniff : SniffedTypes]

InitValidateFile ==
    /\ pc = "validate_excel_file"
    /\ \E f \in UploadedFiles : args = [NoArgs EXCEPT !.value = f]
    /\ ret = 0
    /\ exc = "none"
    /\ warnings = <<>>
    /\ errors = <<>>
    /\ ImportIdle

\* One call of validate_excel_file(file)
CallValidateExcelFile ==
    /\ pc = "validate_excel_file"
    /\ exc' = ValidateExcelFile(args.value)
    /\ pc' = "validate_excel_file_done"
    /\ UNCHANGED <<args, ret, warnings, errors, importVars, exportVars>>

NextValidateFile == CallValidateExcelFile

SpecValidateFile == InitValidateFile /\ [][NextValidateFile]_vars

----------------------------------------------------------------------------
(* Imports one after the other into one database, each by a new ExcelImporter *)

MaxProjects == 2

RowReferenceShort == Pad5(<<T(<<"Reference">>), T(<<" ", "ab">>)>>)
RowReferenceLower == Pad5(<<T(<<"Reference">>), T(<<"r", "e", "f", " ", "1">>)>>)

\* A file without a reference row: the reference is generated
FileNoReference == Workbook1(<<RowSystem, HeaderFull, RowGood1>>)
FileShortReference == Workbook1(<<RowSystem, RowReferenceShort, HeaderFull, RowGood1>>)
FileLowerReference == Workbook1(<<RowSystem, RowReferenceLower, HeaderFull, RowGood2>>)

RefFiles == {FileNoReference, FileGood1, FileDuplicate, FileShortReference, FileLowerReference}

InitRef == ImporterStart(RefFiles, {EmptyStore})

\* The next file: importer = ExcelImporter(), at the same minute or later,
\* on the database the imports before it left
ImportAgain ==
    /\ pc \in {"parse_raised", "create_raised", "created"}
    /\ Len(store.projects) < MaxProjects
    /\ pc' = "parse"
    /\ exc' = "none"
    /\ warnings' = <<>>
    /\ errors' = <<>>
    /\ imported_count' = 0
    /\ file' \in RefFiles
    /\ parse' = NoParse
    /\ data' = NoData
    /\ savepoints' = <<>>
    /\ cursor' = 0
    /\ before' = store
    /\ fault' = FALSE
    /\ UNCHANGED <<pureVars, exportVars, cli, clock, store>>

NextRef == NextImport \/ ImportAgain

SpecRef == InitRef /\ [][NextRef]_vars

----------------------------------------------------------------------------
(* ExcelExporter *)

\* One row of a sheet, width cells wide; cells lists the <<column, value>>
\* written, every other cell of the row is empty.
SheetRow(width, cells) ==
    [c \in 1..width |->
        IF \E k \in 1..Len(cells) : cells[k][1] = c
        THEN cells[CHOOSE k \in 1..Len(cells) : cells[k][1] = c][2]
        ELSE NoneCell]

\* wb.create_sheet(title): a title already in use gets the next number
SheetTitle(sheets, title) ==
    LET n == Cardinality({i \in 1..Len(sheets) : sheets[i].name[1] = title})
    IN IF n = 0 THEN <<title>> ELSE <<title, ToString(n)>>

\* date.strftime('%d/%m/%Y')
StrftimeDate(d) ==
    CASE d = "2025-12-31" -> "31/12/2025"
      [] d = "2025-02-01" -> "01/02/2025"
      [] OTHER -> d

\* project.failures: the rows of the project, in the order of insertion
ProjectFailures(st, project_id) ==
    SelectSeq(st.failures, LAMBDA r : r.project = project_id)

\* a comes before b under '-gravity', '-occurrence', '-detection', and under
\* 'order' after them when meta is set (FailureMode.Meta.ordering)
Precedes(a, b, meta) ==
    \/ a.gravity > b.gravity
    \/ a.gravity = b.gravity /\ a.occurrence > b.occurrence
    \/ a.gravity = b.gravity /\ a.occurrence = b.occurrence /\ a.detection > b.detection
    \/ /\ meta
       /\ a.gravity = b.gravity /\ a.occurrence = b.occurrence /\ a.detection = b.detection
       /\ a.order < b.order

RECURSIVE OrderBy(_, _)
\* The rows in the order of the query; rows the ordering does not tell apart
\* keep the order of insertion.
OrderBy(rows, meta) ==
    IF rows = <<>> THEN <<>>
    ELSE LET first == CHOOSE i \in 1..Len(rows) :
                        /\ \A j \in 1..Len(rows) : ~Precedes(rows[j], rows[i], meta)
                        /\ \A j \in 1..(i - 1) : Precedes(rows[i], rows[j], meta)
             rest == [k \in 1..(Len(rows) - 1) |->
                        IF k < first THEN rows[k] ELSE rows[k + 1]]
         IN <<rows[first]>> \o OrderBy(rest, meta)

\* The level as the sheet writes it (FailureMode.criticality_level)
LevelText(level) ==
    CASE level = "FAIBLE" -> <<"FAIBLE">>
      [] level = "MODEREE" -> <<"MODEREE">>
      [] OTHER -> <<"ELEVEE">>

\* The header cells of the sheet 'Analyse AMDEC' (lines 722-733)
FailuresHeaders ==
    << <<"Composant">>, <<"Mode", " ", "de", " ", "Defaillance">>,
       <<"Cause", " ", "Potentielle">>, <<"Effet">>, <<"Gravite", " ", "(G)">>,
       <<"Occurrence", " ", "(O)">>, <<"Detection", " ", "(D)">>,
       <<"Criticite", " ", "(C)">>, <<"Niveau", " ", "de", " ", "Criticite">>,
       <<"Actions", " ", "Preventives">> >>

\* row_data of generate_failures_sheet (lines 751-762)
FailureSheetRow(f) ==
    LET crit == Criticality(f.gravity, f.occurrence, f.detection)
    IN << StrCell(f.component), StrCell(f.failure_mode), StrCell(f.potential_cause),
          StrCell(f.effect), IntCell(f.gravity), IntCell(f.occurrence),
          IntCell(f.detection), IntCell(crit), StrCell(LevelText(CriticalityLevel(crit))),
          StrCell(f.preventive_actions) >>

\* generate_failures_sheet: the title in A1, the headers in row 3, one row
\* for each failure from row 4 on.
GenerateFailuresSheet(sheets, project, failures) ==
    LET title == project.reference \o <<" ", "-", " ">> \o project.name
                 \o <<"\n", "ANALYSE", " ", "DES", " ", "MODES", " ", "DE", " ",
                      "DEFAILLANCE">>
        ordered == OrderBy(failures, FALSE)
        rows == << SheetRow(10, << <<1, StrCell(title)>> >>),
                   SheetRow(10, <<>>),
                   [c \in 1..10 |-> StrCell(FailuresHeaders[c])] >>
                \o [i \in 1..Len(ordered) |-> FailureSheetRow(ordered[i])]
    IN Append(sheets, [name |-> SheetTitle(sheets, "Analyse AMDEC"), rows |-> rows])

\* The counters of AMDECProject shown on the summary sheet
\* (total_failures, high_, medium_ and low_criticality_count).
CountLevel(failures, level) ==
    Cardinality({i \in 1..Len(failures) :
        CriticalityLevel(Criticality(failures[i].gravity, failures[i].occurrence,
                                     failures[i].detection)) = level})

\* generate_summary_sheet: the sheet 'Resume', inserted in front of the others
GenerateSummarySheet(sheets, project, failures) ==
    LET info == << <<"Systeme analyse:", StrCell(project.name)>>,
                   <<"Client:", StrCell(project.client)>>,
                   <<"Date d'analyse:", StrCell(<<StrftimeDate(project.analysis_date)>>)>>,
                   <<"Equipe AMDEC:", StrCell(project.team_members)>>,
                   <<"Objectif:", StrCell(project.objective)>>,
                   <<"Cree par:", StrCell(project.created_by)>>,
                   <<"Date de creation:", StrCell(<<ToString(project.created_at)>>)>> >>
        scales == <<"Gravite (G): 1-3 Mineure, 4-6 Moderee, 7-10 Critique",
                    "Occurrence (O): 1-3 Rare, 4-6 Occasionnelle, 7-10 Frequente",
                    "Detection (D): 1-3 Facile, 4-6 Moderee, 7-10 Difficile",
                    "Criticite (C): G x O x D">>
        stats == << <<"Total des defaillances:", Len(failures)>>,
                    <<"Criticite elevee (>120):", CountLevel(failures, "ELEVEE")>>,
                    <<"Criticite moderee (61-120):", CountLevel(failures, "MODEREE")>>,
                    <<"Criticite faible (1-60):", CountLevel(failures, "FAIBLE")>> >>
        rows == [r \in 1..26 |->
                    CASE r = 4 -> SheetRow(10, << <<1, StrCell(project.reference
                                        \o <<" ", "-", " ">> \o project.name)>> >>)
                      [] r = 5 -> SheetRow(10, << <<1, StrCell(
                                        <<"ANALYSE DES RISQUES DE DEFAILLANCES (AMDEC)">>)>> >>)
                      [] r \in 7..13 -> SheetRow(10, << <<2, StrCell(<<info[r - 6][1]>>)>>,
                                                        <<4, info[r - 6][2]>> >>)
                      [] r = 15 -> SheetRow(10, << <<2, StrCell(<<"ECHELLE D'EVALUATION">>)>> >>)
                      [] r \in 16..19 -> SheetRow(10, << <<2, StrCell(<<scales[r - 15]>>)>> >>)
                      [] r = 22 -> SheetRow(10, << <<2, StrCell(<<"STATISTIQUES">>)>> >>)
                      [] r \in 23..26 -> SheetRow(10, << <<3, StrCell(<<stats[r - 22][1]>>)>>,
                                                         <<5, IntCell(stats[r - 22][2])>> >>)
                      [] OTHER -> SheetRow(10, <<>>)]
    IN <<[name |-> SheetTitle(sheets, "Resume"), rows |-> rows]>> \o sheets

\* value or default
OrDefault(text, default) == IF text = <<>> THEN default ELSE text

ActionsHeaders ==
    << <<"Composant">>, <<"Defaillance">>, <<"Criticite">>,
       <<"Actions", " ", "Recommandees">>, <<"Responsable">>, <<"Echeance">> >>

\* The deadline cell of a row of the action plan
DeadlineCell(f) ==
    StrCell(IF f.deadline = "" THEN <<"A planifier">> ELSE <<StrftimeDate(f.deadline)>>)

\* A row of the immediate actions (lines 849-861)
HighActionRow(f) ==
    << StrCell(f.component), StrCell(f.failure_mode),
       IntCell(Criticality(f.gravity, f.occurrence, f.detection)),
       StrCell(OrDefault(f.preventive_actions, <<"A definir">>)),
       StrCell(OrDefault(f.responsible, <<"A assigner">>)), DeadlineCell(f) >>

\* A row of the medium-term actions (lines 891-900): columns 1, 5 and 6
MediumActionRow(f) ==
    SheetRow(6, << <<1, StrCell(f.component)>>,
                   <<5, StrCell(OrDefault(f.responsible, <<"A assigner">>))>>,
                   <<6, DeadlineCell(f)>> >>)

\* generate_actions_sheet.  The local `headers` is bound in the branch of the
\* immediate actions only: with medium failures and no high one, reading it
\* raises NameError after the second section title is written.
\* [sheets, raised]
GenerateActionsSheet(sheets, project, failures) ==
    LET all == OrderBy(failures, TRUE)
        level(f) == CriticalityLevel(Criticality(f.gravity, f.occurrence, f.detection))
        high_failures == SelectSeq(all, LAMBDA f : level(f) = "ELEVEE")
        medium_failures == SelectSeq(all, LAMBDA f : level(f) = "MODEREE")
        line(text) == SheetRow(6, << <<1, StrCell(<<text>>)>> >>)
        headers == [c \in 1..6 |-> StrCell(ActionsHeaders[c])]
        raised == medium_failures # <<>> /\ high_failures = <<>>
        top == << line("PLAN D'ACTIONS PRIORITAIRES"), SheetRow(6, <<>>),
                  line("ACTIONS IMMEDIATES (Criticite > 120)") >>
        high == IF high_failures # <<>>
                THEN <<headers>> \o [i \in 1..Len(high_failures) |->
                                        HighActionRow(high_failures[i])]
                ELSE << line("Aucune defaillance de criticite elevee") >>
        gap == << SheetRow(6, <<>>), SheetRow(6, <<>>),
                  line("ACTIONS A MOYEN TERME (Criticite 61-120)") >>
        medium == IF raised THEN <<>>
                  ELSE IF medium_failures # <<>>
                  THEN <<headers>> \o [i \in 1..Len(medium_failures) |->
                                          MediumActionRow(medium_failures[i])]
                  ELSE << line("Aucune defaillance de criticite moderee") >>
    IN [sheets |-> Append(sheets, [name |-> SheetTitle(sheets, "Plan d'Actions"),
                                   rows |-> top \o high \o gap \o medium]),
        raised |-> raised]

\* _add_disclaimer_sheet: the title in B2, the text with the time of the
\* export in B4, merged down to row 20.
AddDisclaimerSheet(sheets, now) ==
    LET rows == [r \in 1..20 |->
                    CASE r = 2 -> SheetRow(8, << <<2, StrCell(
                                        <<"CLAUSE DE NON-RESPONSABILITE">>)>> >>)
                      [] r = 4 -> SheetRow(8, << <<2, StrCell(
                                        <<"Cette analyse AMDEC ... genere automatiquement le",
                                          " ", ToString(now)>>)>> >>)
                      [] OTHER -> SheetRow(8, <<>>)]
    IN Append(sheets, [name |-> SheetTitle(sheets, "Mentions legales"), rows |-> rows])

\* A cell as load_workbook reads it back after wb.save: an empty string is
\* written as a cell without value.
SavedCell(cell) == IF cell.k = "str" /\ cell.s = <<>> THEN NoneCell ELSE cell

\* wb.save(output): the file a later load_workbook(output) opens
SaveWorkbook(sheets) ==
    [loadable |-> TRUE,
     sheets |-> [i \in 1..Len(sheets) |->
                    [name |-> sheets[i].name,
                     rows |-> [r \in 1..Len(sheets[i].rows) |->
                                 [c \in 1..Len(sheets[i].rows[r]) |->
                                     SavedCell(sheets[i].rows[r][c])]]]]]

\* The sheets of export_project, in the order the code adds them
\* [sheets, raised]
ExportSheets(sheets, project, failures, now) ==
    LET s1 == GenerateSummarySheet(sheets, project, failures)
        s2 == GenerateFailuresSheet(s1, project, failures)
        a == GenerateActionsSheet(s2, project, failures)
    IN IF a.raised THEN a
       ELSE [sheets |-> AddDisclaimerSheet(a.sheets, now), raised |-> FALSE]

\* ExcelExporter.export_project(project_id); the file it returns is handed
\* to parse_excel.
ExportProject ==
    /\ pc = "export"
    /\ \E project_id \in 1..store.next_id, now \in clock..Min2(clock + 1, MaxClock) :
        /\ clock' = now
        /\ IF \A i \in 1..Len(store.projects) : store.projects[i].id # project_id
           THEN /\ exc' = "DoesNotExist"
                /\ pc' = "export_raised"
                /\ UNCHANGED <<wb, file>>
           ELSE \E r \in {ExportSheets(wb,
                              store.projects[CHOOSE i \in 1..Len(store.projects) :
                                                store.projects[i].id = project_id],
                              ProjectFailures(store, project_id), now)} :
                  IF r.raised
                  THEN /\ wb' = r.sheets
                       /\ exc' = "NameError"
                       /\ pc' = "export_raised"
                       /\ UNCHANGED file
                  ELSE /\ wb' = r.sheets
                       /\ file' = SaveWorkbook(r.sheets)
                       /\ pc' = "parse"
                       /\ UNCHANGED exc
    /\ UNCHANGED <<pureVars, cli, warnings, errors, imported_count, parse, data, store,
                   savepoints, cursor, before, fault>>

\* The projects exported: a name, and failures drawn from a few kinds
ExportNames == {<<"Pump", " ", "Station">>, <<"Composant", " ", "Mode">>}

ExportKinds1 ==
    [component |-> <<"Pump">>, failure_mode |-> <<"Seal">>,
     gravity |-> 9, occurrence |-> 8, detection |-> 7]
ExportKinds2 ==
    [component |-> <<"Valve">>, failure_mode |-> <<"Leak">>,
     gravity |-> 2, occurrence |-> 3, detection |-> 4]

ExportKinds ==
    { ExportKinds1, ExportKinds2,
      [component |-> <<"Total", " ", "flow">>, failure_mode |-> <<"Leak">>,
       gravity |-> 5, occurrence |-> 5, detection |-> 5],
      [component |-> <<"Pump", " ", " ", "A">>, failure_mode |-> <<"Seal">>,
       gravity |-> 6, occurrence |-> 4, detection |-> 4] }

\* A database holding one project, with the given failures
ExportStore(name, kinds) ==
    [projects |-> << [id |-> 1, name |-> name, reference |-> <<"REF-1">>,
                      client |-> <<"ACME">>, analysis_date |-> "2025-02-01",
                      team_members |-> <<>>, objective |-> <<>>,
                      created_by |-> ImportUser, created_at |-> 0] >>,
     failures |-> [i \in 1..Len(kinds) |->
                     [project |-> 1, component |-> kinds[i].component,
                      failure_mode |-> kinds[i].failure_mode,
                      potential_cause |-> <<"Wear">>, effect |-> <<>>,
                      gravity |-> kinds[i].gravity, occurrence |-> kinds[i].occurrence,
                      detection |-> kinds[i].detection, preventive_actions |-> <<>>,
                      responsible |-> <<>>, deadline |-> "",
                      order |-> i, status |-> "PENDING"]],
     next_id |-> 2]

ExportStores ==
    {ExportStore(name, kinds) :
        name \in ExportNames,
        kinds \in {q \in SeqUpTo(ExportKinds, MaxFailures) :
                      \A i, j \in 1..Len(q) : i # j => q[i] # q[j]}}

\* A new ExcelExporter and a new ExcelImporter
InitRoundTrip ==
    /\ pc = "export"
    /\ args = NoArgs
    /\ ret = 0
    /\ exc = "none"
    /\ warnings = <<>>
    /\ errors = <<>>
    /\ imported_count = 0
    /\ file = NoFile
    /\ clock = 1
    /\ parse = NoParse
    /\ data = NoData
    /\ store \in ExportStores
    /\ savepoints = <<>>
    /\ cursor = 0
    /\ cli = NoCli
    /\ wb = <<>>
    /\ before = store
    /\ fault = FALSE

NextRoundTrip ==
    \/ ExportProject
    \/ ParseExcelBegin
    \/ ScanRow
    \/ ParseExcelReturn

SpecRoundTrip == InitRoundTrip /\ [][NextRoundTrip]_vars

----------------------------------------------------------------------------
(* One ExcelExporter and one ExcelImporter, each called several times *)

MaxSheets == 4
MaxWarnings == 3

ReuseStores ==
    {ExportStore(<<"Pump", " ", "Station">>, kinds) :
        kinds \in {<<ExportKinds1>>, <<ExportKinds1, ExportKinds2>>, <<>>}}

ReuseFiles == {FileGood1, FileGood2, FileDuplicate, Workbook1(<<RowSystem, RowGood1>>)}

InitReuse ==
    /\ InitRoundTrip
    /\ store \in ReuseStores

\* The next call on the same objects: exporter.export_project(...) or
\* importer.parse_excel(file); self.wb, self.warnings, self.errors and
\* self.imported_count are what the calls before left.
CallAgain ==
    /\ pc \in {"parsed", "parse_raised", "created", "create_raised", "export_raised"}
    /\ Len(wb) <= MaxSheets
    /\ Len(warnings) + Len(errors) + imported_count <= MaxWarnings
    /\ Len(store.projects) < MaxProjects
    /\ \/ /\ pc' = "export"
          /\ UNCHANGED file
       \/ /\ pc' = "parse"
          /\ file' \in ReuseFiles
    /\ exc' = "none"
    /\ parse' = NoParse
    /\ data' = NoData
    /\ savepoints' = <<>>
    /\ cursor' = 0
    /\ before' = store
    /\ fault' = FALSE
    /\ UNCHANGED <<pureVars, exportVars, cli, warnings, errors, imported_count, clock, store>>

NextReuse ==
    \/ ExportProject
    \/ NextImport
    \/ CallAgain

SpecReuse == InitReuse /\ [][NextReuse]_vars

----------------------------------------------------------------------------
(* Claims *)

\* The integer part of a value given in tenths, stated without the division:
\* z is the truncation of t/10 toward zero.
IsTruncOf(z, t) ==
    IF t >= 0 THEN 10 * z <= t /\ t < 10 * (z + 1)
    ELSE 10 * z >= t /\ t > 10 * (z - 1)

ArgNumber == FloatOfCell(args.value)

\* C8: for every cell value that converts to a (finite) number, _parse_score
\* returns min(10, max(1, trunc(value))), appends exactly one warning and no
\* error when trunc(value) is outside [1,10], and appends nothing when it is
\* inside; it raises nothing.
C8_ClampNumeric ==
    [][(pc = "parse_score" /\ pc' = "parse_score_done" /\ ArgNumber.kind = "fin") =>
        \E z \in (0 - MaxNegInt - 1)..(MaxCellInt + 16) :
            /\ IsTruncOf(z, ArgNumber.t)
            /\ exc' = "none"
            /\ errors' = errors
            /\ ret' = (IF z < 1 THEN 1 ELSE IF z > 10 THEN 10 ELSE z)
            /\ IF z \in 1..10
               THEN warnings' = warnings
               ELSE /\ Len(warnings') = Len(warnings) + 1
                    /\ SubSeq(warnings', 1, Len(warnings)) = warnings
                    /\ warnings'[Len(warnings')].kind = "clamped"]_vars

\* Witness of C8: an integer above 10 was clamped to 10, with one warning
\* added to a list that already held one.
C8_Witness ==
    /\ pc = "parse_score_done"
    /\ args.value.k = "int"
    /\ args.value.n > ScoreMax
    /\ ret = 10
    /\ Len(warnings) = 2
    /\ errors = <<>>

\* C9: for every cell value that is not numeric (arbitrary text, an empty
\* cell), _parse_score returns 5, appends exactly one entry to errors and none
\* to warnings, and raises nothing.
C9_DefaultOnText ==
    [][(pc = "parse_score" /\ pc' = "parse_score_done" /\ ArgNumber.kind # "fin") =>
        /\ exc' = "none"
        /\ ret' = 5
        /\ warnings' = warnings
        /\ Len(errors') = Len(errors) + 1
        /\ SubSeq(errors', 1, Len(errors)) = errors]_vars

\* C10: the band of g*o*d is FAIBLE iff the product is <= 60, MODEREE iff it
\* is in 61..120, ELEVEE iff it is > 120, and FailureMode.criticality_level,
\* get_criticality_level and the importer summary's band tests agree.
C10_Bands ==
    pc = "level_done" =>
        LET c == args.g * args.o * args.d IN
        /\ ret.criticality = c
        /\ (ret.model = "FAIBLE") <=> (c <= 60)
        /\ (ret.model = "MODEREE") <=> (c >= 61 /\ c <= 120)
        /\ (ret.model = "ELEVEE") <=> (c > 120)
        /\ ret.validators = ret.model
        /\ (ret.summary = "low") <=> (ret.model = "FAIBLE")
        /\ (ret.summary = "medium") <=> (ret.model = "MODEREE")
        /\ (ret.summary = "high") <=> (ret.model = "ELEVEE")

\* Witness of C10: a product of exactly 60 (3*4*5) was classified FAIBLE and a
\* product of 120 would be MODEREE.
C10_Witness ==
    /\ pc = "level_done"
    /\ args.g * args.o * args.d = 60
    /\ ret.model = "FAIBLE"
    /\ ret.summary = "low"

----------------------------------------------------------------------------
(* Claims about create_project and the scan of the data rows *)

\* The rows of the database, the id counter left aside
Rows(st) == <<st.projects, st.failures>>

\* What a failure record keeps of a parsed entry
Kept(r) == <<r.component, r.failure_mode, r.gravity, r.occurrence, r.detection>>

\* The store holds, besides the rows of `before`, one new project and one
\* failure record of that project for every entry of data['failures'].
WholeProject ==
    /\ Len(store.projects) = Len(before.projects) + 1
    /\ SubSeq(store.projects, 1, Len(before.projects)) = before.projects
    /\ store.projects[Len(store.projects)].reference = data.metadata.reference
    /\ Len(store.failures) = Len(before.failures) + Len(data.failures)
    /\ SubSeq(store.failures, 1, Len(before.failures)) = before.failures
    /\ \A i \in 1..Len(data.failures) :
          LET r == store.failures[Len(before.failures) + i]
          IN /\ r.project = store.projects[Len(store.projects)].id
             /\ Kept(r) = Kept(data.failures[i])

CallEnded == pc \in {"created", "create_raised"}

\* C1: after a create_project call, returned or raised (validation refusal,
\* database error on the project row or on the k-th failure row), the store
\* holds either the new project with one failure record per entry of
\* data['failures'], or neither the project nor any of its records.
C1_AllOrNothing ==
    CallEnded =>
        /\ (pc = "created") => WholeProject
        /\ (pc = "create_raised") => Rows(store) = Rows(before)

\* Witness of C1: the call raised on a failure row after the project row and
\* at least one failure row had been written, and the store is as before.
C1_Witness ==
    /\ pc = "create_raised"
    /\ cursor >= 2
    /\ Rows(store) = Rows(before)
    /\ Len(data.failures) >= 2

\* The complete rows parse_excel kept
Remaining == Len(data.failures)

NoFailuresFound == ValidationMsg("no_failures", 0, "")

InErrors(msg) == \E i \in 1..Len(errors) : errors[i] = msg

\* Nothing stands in the way of the creation: validate_data accepts the data
\* and the database accepts every row.
Accepted ==
    /\ data.metadata.system_name # <<>>
    /\ \A i \in 1..Remaining : HasScores(data.failures[i])
    /\ ~ReferenceTaken(before, data.metadata.reference)
    /\ \A i, j \in 1..Remaining :
          i < j => <<data.failures[i].component, data.failures[i].failure_mode>>
                   # <<data.failures[j].component, data.failures[j].failure_mode>>
    /\ ~fault

\* C7 as amended: once parse_excel has returned, create_project fails with
\* the 'no failures found' error and creates nothing when no complete row
\* remains; when at least one remains, it creates the project with all the
\* remaining rows exactly when the system name is present, every row has its
\* three scores, the reference is free, the (component, failure_mode) pairs
\* are distinct and the database raises no error of its own, and creates
\* nothing otherwise.
C7_SucceedsIfAccepted ==
    CallEnded =>
        /\ Remaining = 0 =>
              /\ pc = "create_raised"
              /\ InErrors(NoFailuresFound)
              /\ Rows(store) = Rows(before)
        /\ Remaining >= 1 =>
              /\ (pc = "created") <=> Accepted
              /\ ~InErrors(NoFailuresFound)
              /\ IF pc = "created" THEN WholeProject ELSE Rows(store) = Rows(before)

\* Witness of C7: an incomplete row was dropped with its warning, a complete
\* row remained and the project was created.
C7_Witness ==
    /\ pc = "created"
    /\ Remaining >= 1
    /\ \E i \in 1..Len(warnings) : warnings[i].kind = "incomplete"
    /\ WholeProject

\* C7 as stated: for a sheet with a header row, the import creates the
\* project whenever at least one complete data row remains, and fails with
\* 'no failures found', creating nothing, when none remains.  (A database
\* error of its own is left out of the statement.)
C7_SucceedsIfAnyRow ==
    (CallEnded /\ parse.header_row # 0 /\ ~fault) =>
        /\ Remaining >= 1 => pc = "created"
        /\ Remaining = 0 =>
              /\ pc = "create_raised"
              /\ InErrors(NoFailuresFound)
              /\ Rows(store) = Rows(before)

----------------------------------------------------------------------------
(* Claims about the scan of the rows *)

\* The cell of the row in the column the header maps to the field
CellOf(row, field) ==
    LET hits == {k \in 1..Len(parse.column_indices) :
                    parse.column_indices[k].field_name = field}
    IN IF hits = {} THEN NoneCell
       ELSE LET col_idx == parse.column_indices[CHOOSE k \in hits : TRUE].col_idx
            IN IF col_idx < Len(row) THEN row[col_idx + 1] ELSE NoneCell

\* The row under the cursor of the scan
ScannedRow == parse.ws[parse.row_idx]

\* A data row (not empty, no summary line) without component or failure mode
LacksRequired(row) ==
    /\ AnyTruthy(row)
    /\ ~IsSummaryRow(row)
    /\ \/ ~Truthy(CellOf(row, "component"))
       \/ ~Truthy(CellOf(row, "failure_mode"))
       \/ CleanText(CellOf(row, "component")) = <<>>
       \/ CleanText(CellOf(row, "failure_mode")) = <<>>

\* C6: a data row below the header that lacks component or failure_mode is
\* not added to the failures, adds exactly one warning (naming its row
\* number) and nothing else to warnings or errors, and does not stop the
\* scan: the next row, if any, is examined.
C6_IncompleteRowWarned ==
    [][(pc = "scan" /\ LacksRequired(ScannedRow)) =>
        /\ parse'.failures = parse.failures
        /\ warnings' = Append(warnings, IncompleteWarning(parse.row_idx))
        /\ errors' = errors
        /\ exc' = "none"
        /\ IF parse.row_idx < Len(parse.ws)
           THEN pc' = "scan" /\ parse'.row_idx = parse.row_idx + 1
           ELSE pc' = "summary"]_vars

\* The rows 1..15 of the sheet whose first cell names the field and whose
\* second cell holds a value
SettingRows(rows, field) ==
    {i \in 1..Min2(Len(rows), MetaScanRows) :
        MetadataRow([metadata |-> DefaultMetadata(0), warnings |-> <<>>, set |-> {}],
                    rows[i]).set = {field}}

\* The value the row gives the field
ValueFrom(row, field) ==
    MetadataRow([metadata |-> DefaultMetadata(0), warnings |-> <<>>, set |-> {}],
                row).metadata[field]

\* C5: once a field has been set from a row whose first cell matches its
\* keyword, no later row matching the same keyword changes it: the final
\* value of each field is the value taken from the first such row.
C5_FirstMatchWins ==
    pc \in {"scan", "summary", "parsed"} =>
        \A k \in 1..Len(MetadataKeywords) :
            LET field == MetadataKeywords[k].field
                S == SettingRows(parse.ws, field)
            IN S # {} =>
                  parse.metadata[field] =
                      ValueFrom(parse.ws[CHOOSE i \in S : \A j \in S : i <= j], field)

----------------------------------------------------------------------------
(* Claims about the command *)

IsPrefix(a, b) == Len(a) <= Len(b) /\ SubSeq(b, 1, Len(a)) = a

\* The rows of st are still there, unchanged, in su
Persisted(st, su) ==
    /\ IsPrefix(st.projects, su.projects)
    /\ IsPrefix(st.failures, su.failures)

\* The step ends the processing of a file with a failure
FileFails ==
    /\ Len(cli'.results) = Len(cli.results) + 1
    /\ cli'.results[Len(cli'.results)] = "failed"

SomeFailed == \E i \in 1..Len(cli.results) : cli.results[i] = "failed"

\* C2: when processing file i fails, with --batch and the error limit not
\* reached the next file is taken up (so that at the end of a run whose limit
\* was never reached every file was processed), and without --batch no later
\* file is processed and the run aborts; the rows that the other files
\* created stay in the store unchanged.
C2_BatchContinues ==
    /\ [][FileFails =>
            /\ Rows(store') = Rows(cli'.start)
            /\ IF cli.options.batch
               THEN (~LimitReached(cli') /\ cli.idx < Len(cli.files)) =>
                        /\ cli'.exit = -1
                        /\ cli'.idx = cli.idx + 1
                        /\ pc' = "process_file"
               ELSE /\ cli'.exit = 1
                    /\ pc' = "exited"
                    /\ cli'.idx = cli.idx]_vars
    /\ [][Persisted(cli.start, cli'.start) /\ Persisted(cli'.start, store')]_vars
    /\ [](pc = "exited" =>
            /\ (cli.options.batch /\ cli.idx >= 1 /\ ~LimitReached(cli)) =>
                    Len(cli.results) = Len(cli.files)
            /\ ~cli.options.batch =>
                    \A i \in 1..Len(cli.results) :
                        cli.results[i] = "failed" => i = Len(cli.results))

\* Witness of C2: a batch run whose second file failed went on to the third,
\* and the projects of the first and third files are in the store.
C2_Witness ==
    /\ pc = "exited"
    /\ cli.options.batch
    /\ cli.results = <<"ok", "failed", "ok">>
    /\ Len(store.projects) = 2

\* C3 as amended: a run with a known user and at least one collected file
\* ends with status 1 exactly when a processed file failed and with status 0
\* otherwise; with status 0 every processed file succeeded, and every
\* collected file was processed unless the confirmation was refused (status
\* 0, no file processed) or max-errors is below 1 (the loop stops after its
\* first file).  With an unknown user or no file the status is 1.
C3_ExitStatus ==
    pc = "exited" =>
        /\ cli.exit \in {0, 1}
        /\ (~cli.options.user_ok \/ cli.files = <<>>) =>
                cli.exit = 1 /\ cli.results = <<>>
        /\ (cli.options.user_ok /\ cli.files # <<>>) =>
                /\ (cli.exit = 1) <=> SomeFailed
                /\ cli.cancelled => cli.results = <<>>
                /\ (cli.exit = 0 /\ ~cli.cancelled /\ cli.options.max_errors >= 1) =>
                        Len(cli.results) = Len(cli.files)
                /\ Len(cli.results) = cli.stats.files_processed

\* Witness of C3: a run ended with status 0 after its first file although
\* more files were collected.
C3_Witness ==
    /\ pc = "exited"
    /\ cli.exit = 0
    /\ ~cli.cancelled
    /\ cli.results = <<"ok">>
    /\ Len(cli.files) > 1

\* C3 as stated: for a run with a known user and at least one file, the
\* exit status is 0 exactly when every collected file was processed and
\* succeeded, and 1 when at least one file failed.
C3_ZeroIffAllSucceeded ==
    (pc = "exited" /\ cli.options.user_ok /\ cli.files # <<>>) =>
        /\ (cli.exit = 0) <=>
                /\ Len(cli.results) = Len(cli.files)
                /\ ~SomeFailed
        /\ SomeFailed => cli.exit = 1


----------------------------------------------------------------------------
(* Round trip of the export *)

\* The (component, failure_mode, gravity, occurrence, detection) of the rows
Tuples(rows) == {Kept(rows[i]) : i \in 1..Len(rows)}

\* C4: when a project has been exported and the file parsed back with the
\* sheet 'Analyse AMDEC' selected, the failures parsed carry the same set of
\* (component, failure_mode, gravity, occurrence, detection) as the project's
\* failure records, whatever the texts and the project name are.
C4_RoundTrip ==
    pc = "parsed" => Tuples(data.failures) = Tuples(ProjectFailures(store, 1))

----------------------------------------------------------------------------
(* Claims about the result of parse_excel *)

\* The returned failures that carry the three scores
Scored == {i \in 1..Len(data.failures) :
            {"gravity", "occurrence", "detection"} \subseteq data.failures[i].keys}

Product(i) ==
    data.failures[i].gravity * data.failures[i].occurrence * data.failures[i].detection

\* C11 as amended: for every parse result, summary.total is the number of
\* returned failures, and summary.high, .medium and .low are the numbers of
\* returned failures carrying the three scores whose criticality is > 120,
\* in 61..120 and <= 60; their sum is the number of failures carrying the
\* three scores, which is the total when the header row holds the three
\* score columns.
C11_SummaryCounts ==
    pc = "parsed" =>
        /\ data.summary.total = Len(data.failures)
        /\ data.summary.high = Cardinality({i \in Scored : Product(i) > 120})
        /\ data.summary.medium =
                Cardinality({i \in Scored : Product(i) >= 61 /\ Product(i) <= 120})
        /\ data.summary.low = Cardinality({i \in Scored : Product(i) <= 60})
        /\ data.summary.high + data.summary.medium + data.summary.low
                = Cardinality(Scored)
        /\ (\A f \in {"gravity", "occurrence", "detection"} :
                \E k \in 1..Len(parse.column_indices) :
                    parse.column_indices[k].field_name = f)
              => Cardinality(Scored) = data.summary.total

\* Witness of C11: a result with one failure in each band
C11_Witness ==
    /\ pc = "parsed"
    /\ data.summary = [total |-> 3, high |-> 1, medium |-> 1, low |-> 1]

\* C11 as stated: the three bands add up to the total whichever columns the
\* header row contains.
C11_BandsAddUp ==
    pc = "parsed" =>
        /\ data.summary.total = Len(data.failures)
        /\ data.summary.high + data.summary.medium + data.summary.low
                = data.summary.total

InRange(x) == x \in 1..10

\* C12: every failure record an import has persisted has gravity, occurrence
\* and detection in 1..10, hence a criticality in 1..1000, whatever the score
\* cells held; the scores parse_excel returns are in 1..10 already.
C12_ScoresInRange ==
    /\ \A i \in (Len(before.failures) + 1)..Len(store.failures) :
          LET r == store.failures[i] IN
          /\ InRange(r.gravity) /\ InRange(r.occurrence) /\ InRange(r.detection)
          /\ r.gravity * r.occurrence * r.detection \in 1..1000
    /\ \A i \in 1..Len(data.failures) :
          \A f \in {"gravity", "occurrence", "detection"} \cap data.failures[i].keys :
              InRange(data.failures[i][f])

\* Witness of C12: cells holding 15, 0 and 9.9 were persisted as 10, 1 and 9
C12_Witness ==
    /\ pc = "created"
    /\ \E i \in (Len(before.failures) + 1)..Len(store.failures) :
          /\ store.failures[i].gravity = 10
          /\ store.failures[i].occurrence = 1
          /\ store.failures[i].detection = 9
    /\ \E k \in 1..Len(warnings) : warnings[k].kind = "clamped" /\ warnings[k].val = 15

\* C13: every warning and error recorded while the file was parsed is still
\* in the importer's lists after validate_data and create_project have run:
\* from the return of parse_excel on, no step removes an entry of warnings
\* or of errors.
C13_IssuesKept ==
    [][(pc \in {"parsed", "insert_project", "insert_failure"}) =>
            (IsPrefix(warnings, warnings') /\ IsPrefix(errors, errors'))]_vars

----------------------------------------------------------------------------
(* Claims about _parse_date *)

\* The text handed over, without the blanks around it ("" when it is not
\* one word)
DateWord ==
    IF args.value.k = "str" /\ Len(Strip(args.value.s)) = 1
    THEN Strip(args.value.s)[1] ELSE ""

\* C14: _parse_date raises nothing; a text in one of the formats %Y-%m-%d,
\* %d/%m/%Y, %d-%m-%Y, %Y/%m/%d, %d.%m.%Y gives its date and no warning
\* ('31/12/2025', '2025-12-31' and '31.12.2025' give the same date); a
\* date or datetime value gives its day; any other input gives today's
\* date and exactly one more warning.
C14_DateParsed ==
    [][(pc = "parse_date" /\ pc' = "parse_date_done") =>
        /\ exc' = "none"
        /\ errors' = errors
        /\ IF args.value.k \in {"date", "datetime"}
           THEN ret' = args.value.s[1] /\ warnings' = warnings
           ELSE IF DateWord \in {"2025-12-31", "31/12/2025", "31-12-2025", "2025/12/31",
                            "31.12.2025"}
           THEN ret' = "2025-12-31" /\ warnings' = warnings
           ELSE IF DateWord = "01/02/2025"
           THEN ret' = "2025-02-01" /\ warnings' = warnings
           ELSE /\ ret' = Today
                /\ Len(warnings') = Len(warnings) + 1
                /\ SubSeq(warnings', 1, Len(warnings)) = warnings
                /\ warnings'[Len(warnings')].kind = "invalid_date"]_vars

\* Witness of C14: ' 31.12.2025' was read as 31 December 2025
C14_Witness ==
    /\ pc = "parse_date_done"
    /\ DateWord = "31.12.2025"
    /\ args.value.s # <<"31.12.2025">>
    /\ ret = "2025-12-31"
    /\ Len(warnings) = 1

----------------------------------------------------------------------------
(* Claims about the references *)

Digits == {"0", "1", "2", "3", "4", "5", "6", "7", "8", "9"}

Letters ==
    {"A", "B", "C", "D", "E", "F", "G", "H", "I", "J", "K", "L", "M", "N", "O", "P",
     "Q", "R", "S", "T", "U", "V", "W", "X", "Y", "Z"}

\* chars matches [A-Z0-9_-]{3,50}
MatchesPattern(chars) ==
    /\ Len(chars) >= 3 /\ Len(chars) <= 50
    /\ \A i \in 1..Len(chars) : chars[i] \in Letters \cup Digits \cup {"_", "-"}

\* chars matches ^AMDEC-\d{8}-\d{6}$
IsGenerated(chars) ==
    /\ Len(chars) = 21
    /\ SubSeq(chars, 1, 6) = <<"A", "M", "D", "E", "C", "-">>
    /\ \A i \in 7..14 : chars[i] \in Digits
    /\ chars[15] = "-"
    /\ \A i \in 16..21 : chars[i] \in Digits

\* C17: validate_reference returns a generated reference of the form
\* AMDEC-<8 digits>-<6 digits> for empty input; for non-empty input it
\* returns the trimmed upper-cased reference when that matches
\* [A-Z0-9_-]{3,50} ('REF-001' comes back unchanged) and raises the
\* invalid-reference error otherwise ('ab' is rejected).
C17_ValidateReference ==
    [][(pc = "validate_reference" /\ pc' = "validate_reference_done") =>
        LET input == args.value.s
            inner == Strip(input)
        IN /\ input = <<>> => (exc' = "none" /\ IsGenerated(ret'))
           /\ (input # <<>> /\ exc' = "none") =>
                /\ MatchesPattern(ret')
                /\ Len(ret') = Len(inner)
                /\ \A i \in 1..Len(inner) :
                      inner[i] \in Letters \cup Digits \cup {"_", "-"} => ret'[i] = inner[i]
           /\ (input # <<>> /\ MatchesPattern(inner)) => (exc' = "none" /\ ret' = inner)
           /\ (input # <<>> /\ exc' # "none") =>
                /\ exc' = "ValidationError"
                /\ ~MatchesPattern(inner)
           /\ input = <<"R", "E", "F", "-", "0", "0", "1">> => ret' = input
           /\ input = <<"a", "-", "1">> => ret' = <<"A", "-", "1">>
           /\ input \in {<<"a", "b">>, <<"a", "!", "1">>, <<"a", " ", "1">>} =>
                exc' = "ValidationError"
           /\ Len(inner) > 50 => exc' = "ValidationError"]_vars

\* Witness of C17: a lower-case reference with blanks around it came back
\* trimmed and in upper case
C17_Witness ==
    /\ pc = "validate_reference_done"
    /\ args.value.s = <<" ", "r", "e", "f", "_", "1", "\n">>
    /\ ret = <<"R", "E", "F", "_", "1">>
    /\ exc = "none"

\* The reference the import under way gives its project is that of a project
\* the database held when create_project was entered.
ReferenceInUse ==
    \E i \in 1..Len(before.projects) :
        before.projects[i].reference = data.metadata.reference

\* C15: after any sequence of imports, successful or failed, no two persisted
\* projects have the same reference; an import whose reference (read from
\* the file or generated) is that of an existing project creates no project
\* and no failure record.
C15_UniqueReference ==
    /\ \A i, j \in 1..Len(store.projects) :
          store.projects[i].reference = store.projects[j].reference => i = j
    /\ (pc \in {"insert_failure", "created", "create_raised"} /\ ReferenceInUse) =>
          (pc = "create_raised" /\ store = before)

\* Witness of C15: the second import of a file without a reference row, in
\* the minute of the first, was refused because the generated reference was
\* in use, and the database still holds the one project.
C15_Witness ==
    /\ pc = "create_raised"
    /\ ~fault
    /\ file = FileNoReference
    /\ ReferenceInUse
    /\ Len(store.projects) = 1
    /\ store.projects[1].reference = data.metadata.reference
    /\ Len(store.failures) = 1

----------------------------------------------------------------------------
(* Claims about validate_excel_file *)

ExcelMimeTypes ==
    {"application/vnd.ms-excel",
     "application/vnd.openxmlformats-officedocument.spreadsheetml.sheet",
     "application/octet-stream"}

\* C19: validate_excel_file raises a validation error for a file whose
\* sniffed content type is not in the whitelist of Excel MIME types, and
\* returns without error only when the type is in the whitelist or the
\* sniffing itself is unavailable or fails.  (The files are uploaded files:
\* they have a name and a size.)
C19_MimeChecked ==
    [][(pc = "validate_excel_file" /\ pc' = "validate_excel_file_done") =>
        LET f == args.value IN
        (f.has_name /\ f.has_size) =>
            /\ (f.sniff # "unavailable" /\ f.sniff \notin ExcelMimeTypes) =>
                  exc' = "ValidationError"
            /\ exc' = "none" => f.sniff \in ExcelMimeTypes \cup {"unavailable"}]_vars

----------------------------------------------------------------------------
(* Claims about a sheet without header row *)

\* The working sheet was read and none of its rows qualified as header row.
NoHeaderFound == file.loadable /\ file.sheets # <<>> /\ parse.header_row = 0

NoHeaderCount == Cardinality({i \in 1..Len(warnings) : warnings[i].kind = "no_header"})

\* C18 as stated: when no row of the working sheet qualifies as header row,
\* parse_excel raises nothing, returns zero failures with summary total 0 and
\* records exactly one warning; creating a project from that result is
\* refused and persists nothing.
C18_OneWarning ==
    /\ (pc = "parse_raised" /\ file.loadable /\ file.sheets # <<>>) => parse.header_row # 0
    /\ (pc = "parsed" /\ NoHeaderFound) =>
          /\ exc = "none"
          /\ data.failures = <<>>
          /\ data.summary.total = 0
          /\ Len(warnings) = 1
    /\ pc \in {"insert_project", "insert_failure", "created"} => ~NoHeaderFound
    /\ (pc = "create_raised" /\ NoHeaderFound) =>
          (exc = "ValidationError" /\ store = before)

\* C18, amended: the warning about the missing header is recorded exactly
\* once, as the last warning, after the warnings the metadata rows gave
\* rise to (an analysis date that cannot be read gives one).
C18_HeaderWarning ==
    /\ (pc = "parse_raised" /\ file.loadable /\ file.sheets # <<>>) => parse.header_row # 0
    /\ (pc = "parsed" /\ NoHeaderFound) =>
          /\ exc = "none"
          /\ data.failures = <<>>
          /\ data.summary.total = 0
          /\ NoHeaderCount = 1
          /\ warnings[Len(warnings)].kind = "no_header"
          /\ \A i \in 1..(Len(warnings) - 1) : warnings[i].kind = "invalid_date"
    /\ pc \in {"insert_project", "insert_failure", "created"} => ~NoHeaderFound
    /\ (pc = "create_raised" /\ NoHeaderFound) =>
          (exc = "ValidationError" /\ store = before)

\* Witness of C18: a sheet without header row whose date row cannot be read
\* was parsed with two warnings, and create_project refused the result and
\* left the project of the database alone.
C18_Witness ==
    /\ pc = "create_raised"
    /\ NoHeaderFound
    /\ Len(warnings) = 2
    /\ warnings[1].kind = "invalid_date"
    /\ Len(store.projects) = 1
    /\ store = before

----------------------------------------------------------------------------
(* Claims about the release of the workbook *)

\* C20: after parse_excel has finished, whether it returned a result or
\* raised while extracting the metadata or the failures, the workbook it
\* opened has been closed.
C20_WorkbookClosed ==
    (pc \in {"parsed", "parse_raised"} /\ file.loadable /\ file.sheets # <<>>) =>
        ~parse.wb_open

----------------------------------------------------------------------------
(* Claims about calls on the same object *)

\* The project export_project is called for
ProjectOf(id) == store.projects[CHOOSE i \in 1..Len(store.projects) : store.projects[i].id = id]

\* C21: import and export calls share no mutable state: the outputs of a
\* call on an ExcelImporter (warnings of parse_excel, imported_count of
\* create_project) or on an ExcelExporter (the sheets of the workbook of
\* export_project) are those the call gives on a newly constructed object.
C21_NoSharedState ==
    [][/\ (pc = "export" /\ pc' = "parse") =>
            \E id \in 1..Len(store.projects) :
                wb' = ExportSheets(<<>>, ProjectOf(id), ProjectFailures(store, id), clock').sheets
       /\ (pc = "parse" /\ pc' \in {"scan", "summary"}) =>
            warnings' = ParseStart(file.sheets, clock', [warnings |-> <<>>]).warnings
       /\ (pc = "insert_failure" /\ pc' = "created") =>
            imported_count = Len(data.failures)
      ]_vars

----------------------------------------------------------------------------
(* Claims about the sheets of the exported workbook *)

\* C22: the workbook returned by export_project for an existing project
\* contains exactly four sheets, in this order: the summary sheet,
\* 'Analyse AMDEC', 'Plan d'Actions', 'Mentions legales'; the default empty
\* sheet 'Sheet' is not among them.
C22_FourSheets ==
    [][(pc = "export" /\ pc' = "parse") =>
          [i \in 1..Len(file'.sheets) |-> file'.sheets[i].name]
             = << <<"Resume">>, <<"Analyse AMDEC">>, <<"Plan d'Actions">>,
                  <<"Mentions legales">> >>]_vars

\* The sheet of the action plan in the workbook
ActionPlan(sheets) ==
    sheets[CHOOSE i \in 1..Len(sheets) : sheets[i].name = <<"Plan d'Actions">>].rows

\* The row where the medium-term table begins
MediumTitleRow(rows) ==
    CHOOSE r \in 1..Len(rows) :
        rows[r][1] = StrCell(<<"ACTIONS A MOYEN TERME (Criticite 61-120)">>)

\* The row the action plan is to list for failure f
ListedRow(f) ==
    << StrCell(f.component), StrCell(f.failure_mode),
       IntCell(f.gravity * f.occurrence * f.detection),
       StrCell(IF f.preventive_actions = <<>> THEN <<"A definir">>
               ELSE f.preventive_actions),
       StrCell(IF f.responsible = <<>> THEN <<"A assigner">> ELSE f.responsible),
       StrCell(IF f.deadline = "" THEN <<"A planifier">>
               ELSE <<StrftimeDate(f.deadline)>>) >>

\* How often rows from..to list failure f
TimesListed(rows, from, to, f) ==
    Cardinality({r \in from..to : rows[r] = ListedRow(f)})

\* C23: in the action plan every failure with criticality > 120 appears
\* exactly once in the immediate table, every failure with criticality in
\* 61..120 exactly once in the medium-term table, failures with criticality
\* <= 60 in neither, and each listed row carries component, failure mode,
\* criticality, preventive actions or 'A definir', responsible or
\* 'A assigner', and deadline or 'A planifier'.
C23_ActionPlan ==
    [][(pc = "export" /\ pc' = "parse") =>
        LET rows == ActionPlan(wb')
            m == MediumTitleRow(rows)
            failures == ProjectFailures(store, 1)
        IN \A i \in 1..Len(failures) :
            LET f == failures[i]
                c == f.gravity * f.occurrence * f.detection
            IN /\ TimesListed(rows, 1, m - 1, f) = (IF c > 120 THEN 1 ELSE 0)
               /\ TimesListed(rows, m + 1, Len(rows), f)
                     = (IF c > 60 /\ c <= 120 THEN 1 ELSE 0)]_vars

----------------------------------------------------------------------------
(* Claims about the order of the scan and its end *)

\* The first cell of the row contains one of the four summary keywords,
\* whatever the case of its letters
FirstCellStops(row) ==
    /\ row[1].k = "str"
    /\ \E keyword \in { <<"resume">>, <<"total">>, <<"criticite", " ", "elevee">>,
                        <<"criticite", " ", "moderee">> } :
          Contains(Lower(row[1].s), keyword)

EntirelyEmpty(row) == \A c \in 1..Len(row) : row[c] = NoneCell

\* C24: during failure extraction the rows are consumed top to bottom from
\* the row after the header; an entirely empty row is skipped without
\* ending the scan, and no row at or below the first row (of the rows
\* below the header) whose first cell contains a summary keyword becomes a
\* failure record or produces a warning or an error.
C24_ScanOrder ==
    [][/\ (pc = "parse" /\ pc' = "scan") => parse'.row_idx = parse'.header_row + 1
       /\ pc' = "scan" =>
            \A r \in (parse'.header_row + 1)..(parse'.row_idx - 1) :
                ~FirstCellStops(parse'.ws[r])
       /\ (pc = "scan" /\ pc' = "scan") => parse'.row_idx = parse.row_idx + 1
       /\ (pc = "scan" /\ pc' = "summary") =>
            (parse.row_idx = Len(parse.ws) \/ FirstCellStops(ScannedRow))
       /\ (pc = "scan" /\ EntirelyEmpty(ScannedRow)) =>
            /\ parse'.failures = parse.failures /\ warnings' = warnings /\ errors' = errors
            /\ pc' = IF parse.row_idx < Len(parse.ws) THEN "scan" ELSE "summary"
       /\ (pc = "scan" /\ FirstCellStops(ScannedRow)) =>
            /\ parse'.failures = parse.failures /\ warnings' = warnings /\ errors' = errors
            /\ pc' = "summary"
       /\ pc = "scan" =>
            \/ parse'.failures = parse.failures
            \/ /\ Len(parse'.failures) = Len(parse.failures) + 1
               /\ SubSeq(parse'.failures, 1, Len(parse.failures)) = parse.failures
               /\ parse'.failures[Len(parse'.failures)].component
                     = CleanText(CellOf(ScannedRow, "component"))
      ]_vars

\* Witness of C24: below the header an empty row, then the row 'Total', then
\* a complete row: the scan passed the empty row, ended at 'Total', and the
\* complete row gave no failure and no warning.
C24_Witness ==
    /\ pc = "parsed"
    /\ Len(parse.ws) = 4
    /\ EntirelyEmpty(parse.ws[2])
    /\ FirstCellStops(parse.ws[3])
    /\ parse.ws[4] = RowGood1
    /\ parse.row_idx = 3
    /\ data.failures = <<>>
    /\ warnings = <<>>

----------------------------------------------------------------------------
(* Claims about the validation step and the error limit of the command *)

\* C25: in a run without --skip-validation, a file with an .xlsx or .xls
\* extension, a size of at most 10 MiB and Excel content passes the
\* validation step and proceeds to parse_excel.
C25_ValidFilePasses ==
    [][(/\ pc = "process_file"
        /\ ~cli.options.skip_validation
        /\ cli.files[cli.idx].loadable) => pc' = "parse"]_vars

\* C26: in batch mode with max_errors = N >= 1 the run stops as soon as the
\* number of recorded errors reaches N: at most N files fail, no file is
\* processed after the N-th failure, and the final report and the exit
\* status are still produced.
C26_ErrorLimit ==
    (cli.options.batch /\ cli.options.max_errors >= 1) =>
        /\ cli.stats.files_failed <= cli.options.max_errors
        /\ Len(cli.stats.errors) = cli.stats.files_failed
        /\ cli.stats.files_failed = cli.options.max_errors =>
              /\ pc = "exited"
              /\ cli.exit = 1
              /\ cli.results[Len(cli.results)] = "failed"
              /\ cli.stats.files_processed = Len(cli.results)
        /\ (pc = "exited" /\ cli.stats.files_processed > 0) => cli.exit \in {0, 1}

\* Witness of C26: a batch run with max_errors = 2 over three files ended
\* after the second failure; the third file was not processed.
C26_Witness ==
    /\ pc = "exited"
    /\ cli.options.batch
    /\ cli.options.max_errors = 2
    /\ Len(cli.files) = 3
    /\ cli.results = <<"failed", "failed">>
    /\ cli.stats.files_processed = 2
    /\ cli.exit = 1

----------------------------------------------------------------------------
(* Claims about a native date in the metadata *)

\* C27: when the cell next to a 'date' keyword in rows 1 to 15 holds a
\* native date or datetime value, metadata extraction sets analysis_date to
\* that calendar date and records no warning.
C27_NativeDate ==
    pc \in {"scan", "summary", "parsed"} =>
        LET S == SettingRows(parse.ws, "analysis_date") IN
        \A d \in {"2025-12-31", "2025-02-01"} :
            (S # {} /\ \A i \in S : parse.ws[i][2] \in {DateCell(d), DateTimeCell(d)}) =>
                /\ parse.metadata.analysis_date = d
                /\ \A w \in 1..Len(warnings) : warnings[w].kind # "invalid_date"

----------------------------------------------------------------------------
(* Claims about --dry-run *)

\* create_project(data, user) on the store creates the project (the
\* database raising no error of its own): the data pass validate_data, the
\* reference is free and no two failures have the same component and mode.
WouldCreate ==
    /\ ValidateData(data).ok
    /\ \A i \in 1..Len(store.projects) :
          store.projects[i].reference # data.metadata.reference
    /\ \A i, j \in 1..Len(data.failures) :
          (/\ data.failures[i].component = data.failures[j].component
           /\ data.failures[i].failure_mode = data.failures[j].failure_mode) => i = j

\* C28: dry-run mode validates without importing: no project and no failure
\* record is created during a dry run, and a file is counted as successful
\* in a dry run exactly when a real run on the same file and the same store
\* would have created its project.
C28_DryRunFaithful ==
    [][cli.options.dry_run =>
          /\ store' = store
          /\ (pc = "parsed" /\ pc' # "parsed") =>
                (cli'.results[Len(cli'.results)] = "ok" <=> WouldCreate)]_vars

----------------------------------------------------------------------------
(* Claims about duplicate rows *)

\* Two of the parsed rows have the same component and the same failure mode
HasDuplicate ==
    \E i, j \in 1..Len(data.failures) :
        /\ i < j
        /\ data.failures[i].component = data.failures[j].component
        /\ data.failures[i].failure_mode = data.failures[j].failure_mode

\* C29: if the rows parsed from one file contain two rows with the same
\* (component, failure_mode) pair, create_project raises and persists
\* nothing, neither the project nor the rows that precede the duplicate;
\* the persisted failures of every project are pairwise distinct in
\* (component, failure_mode).
C29_DuplicateRefused ==
    /\ pc = "created" => ~HasDuplicate
    /\ (pc = "create_raised" /\ HasDuplicate) =>
          (exc = "ValidationError" /\ store = before)
    /\ \A i, j \in 1..Len(store.failures) :
          (/\ store.failures[i].project = store.failures[j].project
           /\ store.failures[i].component = store.failures[j].component
           /\ store.failures[i].failure_mode = store.failures[j].failure_mode) => i = j

\* Witness of C29: the second row repeated the pair of the first; the
\* project and the first row had been written when the database refused the
\* second, and the database is empty as it was before the call.
C29_Witness ==
    /\ pc = "create_raised"
    /\ ~fault
    /\ HasDuplicate
    /\ data.failures[1].component = data.failures[2].component
    /\ data.failures[1].failure_mode = data.failures[2].failure_mode
    /\ ~ReferenceInUse
    /\ imported_count = 1
    /\ store = before
    /\ store = EmptyStore

----------------------------------------------------------------------------
(* Claims about the statistics of a run *)

\* C30: at the end of every run that reaches the final report,
\* files_processed = files_success + files_failed, every collected file is
\* counted at most once, projects_created is the number of projects the run
\* persisted and failures_imported the number of failure records it
\* persisted.
C30_Statistics ==
    (pc = "exited" /\ cli.stats.files_processed > 0) =>
        /\ cli.stats.files_processed = cli.stats.files_success + cli.stats.files_failed
        /\ cli.stats.files_processed <= Len(cli.files)
        /\ Len(cli.results) = cli.stats.files_processed
        /\ Cardinality({i \in 1..Len(cli.results) : cli.results[i] = "ok"})
              = cli.stats.files_success
        /\ cli.stats.projects_created = Len(store.projects)
        /\ cli.stats.failures_imported = Len(store.failures)

\* Witness of C30: a batch run over three files, the second of which
\* failed, ended with two projects created and their failures counted.
C30_Witness ==
    /\ pc = "exited"
    /\ cli.results = <<"ok", "failed", "ok">>
    /\ cli.stats.files_processed = 3
    /\ cli.stats.files_failed = 1
    /\ cli.stats.projects_created = 2
    /\ Len(store.projects) = 2
    /\ cli.stats.failures_imported = 2
    /\ Len(store.failures) = 2

====
